---- MODULE Spec2Model ----
(***************************************************************************)
(* A model of croct-tech/json-pointer-js: RFC 6901 JSON pointers           *)
(* (JsonPointer) and relative JSON pointers (JsonRelativePointer) applied  *)
(* to an in-memory JSON tree.                                              *)
(*                                                                         *)
(* Representation                                                          *)
(*   - a JS string is a sequence of one-character strings;                 *)
(*   - a pointer segment is a record tagged with its JS typeof             *)
(*     ("number" or "string"); the null segment of the root entry of a     *)
(*     traversal is tagged "null";                                         *)
(*   - a JSON value is a record tagged "array", "object", "number",        *)
(*     "string" or "null"; "undefined" is the JS undefined unset returns;  *)
(*   - a thrown error is a record with the class of the error, the         *)
(*     message template, its interpolated argument and the pointer the     *)
(*     message names.                                                      *)
(* The tree is a tree: no subtree is shared between two locations.  The    *)
(* keys of the modelled objects are not names of Object.prototype, so      *)
(* that `key in object` is membership in the object's own keys.            *)
(***************************************************************************)
EXTENDS Integers, Sequences, FiniteSets

(***************************************************************************)
(* Strings                                                                 *)
(***************************************************************************)
DigitChars == <<"0", "1", "2", "3", "4", "5", "6", "7", "8", "9">>

IsDigit(c) == \E i \in DOMAIN DigitChars : DigitChars[i] = c

DigitValue(c) == (CHOOSE i \in DOMAIN DigitChars : DigitChars[i] = c) - 1

\* /^\d+$/.test(s)
AllDigits(s) == Len(s) > 0 /\ \A i \in 1..Len(s) : IsDigit(s[i])

\* `${n}` for an integer n
RECURSIVE NumberToString(_)
NumberToString(n) ==
    IF n < 0
    THEN <<"-">> \o NumberToString(0 - n)
    ELSE IF n < Len(DigitChars)
    THEN <<DigitChars[n + 1]>>
    ELSE NumberToString(n \div Len(DigitChars)) \o <<DigitChars[(n % Len(DigitChars)) + 1]>>

\* Number.MAX_SAFE_INTEGER, the largest n that Number.isSafeInteger accepts.
\* It is 2^53 - 1 in JS; the model scales the safe range down to three
\* decimal digits, the integers above it standing for the unsafe ones.
MaxSafeInteger == 999

\* The integer a string of decimal digits is the numeral of
RECURSIVE DigitsValue(_)
DigitsValue(s) ==
    IF s = <<>>
    THEN 0
    ELSE DigitsValue(SubSeq(s, 1, Len(s) - 1)) * Len(DigitChars) + DigitValue(s[Len(s)])

\* The number (a double) nearest to an integer: the integer itself up to
\* MaxSafeInteger + 1; above it only the even integers are numbers, and an
\* odd integer is rounded to its neighbour with the even mantissa, which
\* is the multiple of 4.
NearestNumber(n) ==
    IF n <= MaxSafeInteger \/ n % 2 = 0 THEN n
    ELSE IF (n + 1) % 4 = 0 THEN n + 1
    ELSE n - 1

\* Number.parseInt(s, 10) for a string of decimal digits
ParseDigits(s) == NearestNumber(DigitsValue(s))

\* The index of the first occurrence of the string pat in s at or after
\* position from, or 0.
FirstIndexOf(s, pat, from) ==
    LET hits == {i \in from..(Len(s) - Len(pat) + 1) : SubSeq(s, i, i + Len(pat) - 1) = pat}
    IN  IF hits = {} THEN 0 ELSE CHOOSE i \in hits : \A j \in hits : i <= j

\* String.prototype.replace(pat, by) with a string pattern: only the first
\* occurrence is replaced.
ReplaceFirst(s, pat, by) ==
    LET i == FirstIndexOf(s, pat, 1)
    IN  IF i = 0
        THEN s
        ELSE SubSeq(s, 1, i - 1) \o by \o SubSeq(s, i + Len(pat), Len(s))

\* String.prototype.replace(/pat/g, by): every occurrence, left to right,
\* the search resuming after each replaced occurrence.
RECURSIVE ReplaceAllFrom(_, _, _, _)
ReplaceAllFrom(s, pat, by, from) ==
    LET i == FirstIndexOf(s, pat, from)
    IN  IF i = 0
        THEN SubSeq(s, from, Len(s))
        ELSE SubSeq(s, from, i - 1) \o by \o ReplaceAllFrom(s, pat, by, i + Len(pat))

ReplaceAll(s, pat, by) == ReplaceAllFrom(s, pat, by, 1)

\* String.prototype.split(sep) for a one-character separator: a sequence of
\* strings, never empty.
RECURSIVE Split(_, _)
Split(s, sep) ==
    LET i == FirstIndexOf(s, <<sep>>, 1)
    IN  IF i = 0
        THEN <<s>>
        ELSE <<SubSeq(s, 1, i - 1)>> \o Split(SubSeq(s, i + 1, Len(s)), sep)

\* Array.prototype.join(sep)
RECURSIVE Join(_, _)
Join(strs, sep) ==
    IF strs = <<>> THEN <<>>
    ELSE IF Len(strs) = 1 THEN strs[1]
    ELSE strs[1] \o <<sep>> \o Join(Tail(strs), sep)

(***************************************************************************)
(* Segments and errors                                                     *)
(***************************************************************************)
Num(n) == [kind |-> "number", n |-> n, s |-> <<>>]

Str(s) == [kind |-> "string", n |-> 0, s |-> s]

\* The segment of the root entry of a traversal
NullSegment == [kind |-> "null", n |-> 0, s |-> <<>>]

Dash == Str(<<"-">>)

NoError == [kind |-> "none", msg |-> "", arg |-> <<>>, at |-> <<>>]

Error(kind, msg, arg, at) == [kind |-> kind, msg |-> msg, arg |-> arg, at |-> at]

(***************************************************************************)
(* JsonPointer: construction and serialization                             *)
(***************************************************************************)
\* A pointer is its sequence of segments; a construction returns the
\* pointer or throws.
Built(segments) == [ok |-> TRUE, segments |-> segments, err |-> NoError]

Failed(err) == [ok |-> FALSE, segments |-> <<>>, err |-> err]

normalizeSegment(segment) ==
    IF segment.kind = "number"
    THEN IF segment.n >= 0 THEN Num(ParseDigits(NumberToString(segment.n))) ELSE segment
    ELSE IF AllDigits(segment.s) THEN Num(ParseDigits(segment.s)) ELSE segment

unescapeSegment(segment) ==
    LET normalizedSegment == normalizeSegment(Str(segment))
    IN  IF normalizedSegment.kind = "number"
        THEN normalizedSegment
        ELSE Str(ReplaceAll(ReplaceAll(normalizedSegment.s, <<"~", "1">>, <<"/">>),
                            <<"~", "0">>, <<"~">>))

escapeSegment(segment) ==
    IF segment.kind = "number"
    THEN NumberToString(segment.n)
    ELSE ReplaceFirst(ReplaceFirst(segment.s, <<"~">>, <<"~", "0">>), <<"/">>, <<"~", "1">>)

toString(segments) ==
    IF Len(segments) = 0
    THEN <<>>
    ELSE <<"/">> \o Join([i \in 1..Len(segments) |-> escapeSegment(segments[i])], "/")

fromSegments(segments) ==
    LET bad == {i \in 1..Len(segments) :
                    /\ segments[i].kind = "number"
                    /\ (segments[i].n < 0 \/ segments[i].n > MaxSafeInteger)}
    IN  IF bad # {}
        THEN LET i == CHOOSE i \in bad : \A j \in bad : i <= j
             IN  Failed(Error("InvalidSyntaxError", "Invalid integer segment",
                              IF segments[i].n < 0
                              THEN <<"-">> \o NumberToString(0 - segments[i].n)
                              ELSE NumberToString(segments[i].n), <<>>))
        ELSE Built(segments)

\* JsonPointer.from for an array of segments
from(path) == fromSegments([i \in 1..Len(path) |-> normalizeSegment(path[i])])

\* /~(?![0-1])/.test(path)
HasInvalidEscape(path) ==
    \E i \in 1..Len(path) :
        /\ path[i] = "~"
        /\ (i = Len(path) \/ path[i + 1] \notin {"0", "1"})

parse(path) ==
    IF Len(path) = 0 THEN Built(<<>>)
    ELSE IF HasInvalidEscape(path)
    THEN Failed(Error("InvalidSyntaxError", "Invalid escape sequence", path, <<>>))
    ELSE IF path[1] # "/"
    THEN Failed(Error("InvalidSyntaxError", "A non-root pointer must start with a slash",
                      path, <<>>))
    ELSE LET raw == Split(SubSeq(path, 2, Len(path)), "/")
         IN  Built([i \in 1..Len(raw) |-> unescapeSegment(raw[i])])

isRoot(segments) == Len(segments) = 0

getDepth(segments) == Len(segments)

getParent(segments) ==
    IF Len(segments) = 0
    THEN Failed(Error("JsonPointerError", "Cannot get parent of root pointer", <<>>, <<>>))
    ELSE Built(SubSeq(segments, 1, Len(segments) - 1))

\* truncatedAt that refuses the depth of the pointer itself
truncatedAtBelowDepth(segments, depth) ==
    IF depth = 0 THEN Built(<<>>)
    ELSE IF depth < 0 \/ depth >= Len(segments)
    THEN Failed(Error("JsonPointerError", "Depth is out of bounds",
                      IF depth < 0 THEN <<"-">> \o NumberToString(0 - depth)
                      ELSE NumberToString(depth), <<>>))
    ELSE Built(SubSeq(segments, 1, depth))

truncatedAt(segments, depth) ==
    IF depth = 0 THEN Built(<<>>)
    ELSE IF depth < 0 \/ depth > Len(segments)
    THEN Failed(Error("JsonPointerError", "Depth is out of bounds",
                      IF depth < 0 THEN <<"-">> \o NumberToString(0 - depth)
                      ELSE NumberToString(depth), <<>>))
    ELSE Built(SubSeq(segments, 1, depth))

\* this.joinedWith(other) for a pointer other
joinedWith(this, other) ==
    IF isRoot(other) THEN Built(this) ELSE fromSegments(this \o other)

equals(this, other) ==
    /\ Len(this) = Len(other)
    /\ \A i \in 1..Len(this) : this[i] = other[i]

\* A value handed to equals: an instance of a class, with the segments it
\* holds when it is a pointer
Instance(class, segments) == [class |-> class, segments |-> segments]

\* equals that does not look at the class of its argument
pointerEqualsAnyClass(this, other) == equals(this.segments, other.segments)

\* this.equals(other) of a JsonPointer, for any value other
pointerEquals(this, other) ==
    IF this = other THEN TRUE
    ELSE IF other.class # "JsonPointer" THEN FALSE
    ELSE equals(this.segments, other.segments)

(***************************************************************************)
(* JSON values                                                             *)
(***************************************************************************)
NoProps == [key \in {} |-> 0]

NoItems == [index \in {} |-> 0]

\* A JS array: its length and its elements by index (from 0).  The array is
\* sparse when an index below its length has no element.
Array(length, items) ==
    [kind |-> "array", v |-> 0, s |-> <<>>, length |-> length, items |-> items,
     props |-> NoProps]

\* The dense array of the elements of a sequence
Arr(elements) == Array(Len(elements), [i \in 0..(Len(elements) - 1) |-> elements[i + 1]])

Obj(props) ==
    [kind |-> "object", v |-> 0, s |-> <<>>, length |-> 0, items |-> NoItems,
     props |-> props]

\* A JSON number
Number(v) ==
    [kind |-> "number", v |-> v, s |-> <<>>, length |-> 0, items |-> NoItems,
     props |-> NoProps]

\* A JSON string
String(s) ==
    [kind |-> "string", v |-> 0, s |-> s, length |-> 0, items |-> NoItems,
     props |-> NoProps]

\* A JS boolean
Boolean(b) ==
    [kind |-> "boolean", v |-> IF b THEN 1 ELSE 0, s |-> <<>>, length |-> 0,
     items |-> NoItems, props |-> NoProps]

Null ==
    [kind |-> "null", v |-> 0, s |-> <<>>, length |-> 0, items |-> NoItems,
     props |-> NoProps]

Undefined ==
    [kind |-> "undefined", v |-> 0, s |-> <<>>, length |-> 0, items |-> NoItems,
     props |-> NoProps]

\* Array.isArray(value)
IsArray(value) == value.kind = "array"

\* typeof value === 'object' && value !== null
IsStructure(value) == value.kind \in {"array", "object"}

\* key in object
HasKey(object, key) == key \in DOMAIN object.props

\* array[index]
ItemAt(array, index) ==
    IF index \in DOMAIN array.items THEN array.items[index] ELSE Undefined

\* object[key] = value
WithKey(object, key, value) ==
    Obj([k \in (DOMAIN object.props) \cup {key} |->
            IF k = key THEN value ELSE object.props[k]])

\* delete object[key]
WithoutKey(object, key) ==
    Obj([k \in (DOMAIN object.props) \ {key} |-> object.props[k]])

\* array.push(value)
Push(array, value) ==
    Array(array.length + 1,
          [i \in (DOMAIN array.items) \cup {array.length} |->
              IF i = array.length THEN value ELSE array.items[i]])

\* An assignment that inserts the value and moves the elements at and after
\* the index up by one
WithIndexInserting(array, index, value) ==
    Array(array.length + 1,
          [i \in 0..array.length |->
              IF i < index THEN ItemAt(array, i)
              ELSE IF i = index THEN value
              ELSE ItemAt(array, i - 1)])

\* array[index] = value: the length grows to index + 1 when index is at or
\* beyond it, and the indices in between stay without element.
WithIndex(array, index, value) ==
    Array(IF index >= array.length THEN index + 1 ELSE array.length,
          [i \in (DOMAIN array.items) \cup {index} |->
              IF i = index THEN value ELSE array.items[i]])

\* Splice as `delete array[index]` would do it: the element goes, nothing
\* shifts and the length stays.
SpliceLeavingHole(array, index) ==
    Array(array.length, [i \in (DOMAIN array.items) \ {index} |-> array.items[i]])

\* array.splice(index, 1), for index < array.length
Splice(array, index) ==
    Array(array.length - 1,
          [i \in {j \in DOMAIN array.items : j < index}
                 \cup {j - 1 : j \in {k \in DOMAIN array.items : k > index}} |->
              IF i < index THEN array.items[i] ELSE array.items[i + 1]])

(***************************************************************************)
(* JsonPointer.traverse, get, has                                          *)
(***************************************************************************)
Entry(segment, value) == [segment |-> segment, value |-> value]

PointerString(segments, depth) == toString(truncatedAt(segments, depth).segments)

\* TraverseStep with the index compared by > instead of >=
TraverseStepOffByOne(segments, i, current) ==
    LET segment == segments[i + 1]
        Throw(err) == [ok |-> FALSE, value |-> Undefined, err |-> err]
        Yield(value) == [ok |-> TRUE, value |-> value, err |-> NoError]
        Step(at) ==
            IF ~IsStructure(current)
            THEN Throw(Error("InvalidReferenceError", "Cannot read value at", <<>>, at))
            ELSE IF IsArray(current)
            THEN IF segment = Dash
                 THEN Throw(Error("InvalidReferenceError", "Index is out of bounds at",
                                  NumberToString(current.length), at))
                 ELSE IF segment.kind # "number"
                 THEN Throw(Error("InvalidReferenceError",
                                  "Expected an object, got an array", <<>>, at))
                 ELSE IF segment.n > current.length
                 THEN Throw(Error("InvalidReferenceError", "Index is out of bounds at",
                                  NumberToString(segment.n), at))
                 ELSE Yield(ItemAt(current, segment.n))
            ELSE IF segment.kind = "number"
            THEN Throw(Error("InvalidReferenceError", "Expected array, got object", <<>>, at))
            ELSE IF ~HasKey(current, segment.s)
            THEN Throw(Error("InvalidReferenceError", "Property does not exist at",
                             segment.s, at))
            ELSE Yield(current.props[segment.s])
    IN  Step(PointerString(segments, i))

\* One iteration of the loop of traverse: the value reached by `segment`
\* from `current`, or the error thrown at depth i.
TraverseStep(segments, i, current) ==
    LET segment == segments[i + 1]
        Throw(err) == [ok |-> FALSE, value |-> Undefined, err |-> err]
        Yield(value) == [ok |-> TRUE, value |-> value, err |-> NoError]
        Step(at) ==
            IF ~IsStructure(current)
            THEN Throw(Error("InvalidReferenceError", "Cannot read value at", <<>>, at))
            ELSE IF IsArray(current)
            THEN IF segment = Dash
                 THEN Throw(Error("InvalidReferenceError", "Index is out of bounds at",
                                  NumberToString(current.length), at))
                 ELSE IF segment.kind # "number"
                 THEN Throw(Error("InvalidReferenceError",
                                  "Expected an object, got an array", <<>>, at))
                 ELSE IF segment.n >= current.length
                 THEN Throw(Error("InvalidReferenceError", "Index is out of bounds at",
                                  NumberToString(segment.n), at))
                 ELSE Yield(ItemAt(current, segment.n))
            ELSE IF segment.kind = "number"
            THEN Throw(Error("InvalidReferenceError", "Expected array, got object", <<>>, at))
            ELSE IF ~HasKey(current, segment.s)
            THEN Throw(Error("InvalidReferenceError", "Property does not exist at",
                             segment.s, at))
            ELSE Yield(current.props[segment.s])
    IN  Step(PointerString(segments, i))

\* The loop of traverse from depth i on: the entries yielded so far and,
\* when the generator throws, the error.
RECURSIVE TraverseFrom(_, _, _, _)
TraverseFrom(segments, i, current, entries) ==
    IF i >= Len(segments)
    THEN [entries |-> entries, err |-> NoError]
    ELSE LET After(result) ==
                 IF ~result.ok
                 THEN [entries |-> entries, err |-> result.err]
                 ELSE TraverseFrom(segments, i + 1, result.value,
                                   Append(entries, Entry(segments[i + 1], result.value)))
         IN  After(TraverseStep(segments, i, current))

\* The entries a consumer that drains traverse(root) receives, and the
\* error that ends the iteration if there is one.
traverse(segments, root) == TraverseFrom(segments, 0, root, <<Entry(NullSegment, root)>>)

Return(value) == [status |-> "return", value |-> value, err |-> NoError]

Throw(err) == [status |-> "throw", value |-> Undefined, err |-> err]

\* get that returns the value of the first entry
getFirstEntry(segments, value) ==
    LET Drain(iteration) ==
            IF iteration.err # NoError
            THEN Throw(iteration.err)
            ELSE Return(iteration.entries[1].value)
    IN  Drain(traverse(segments, value))

get(segments, value) ==
    LET Drain(iteration) ==
            IF iteration.err # NoError
            THEN Throw(iteration.err)
            ELSE Return(iteration.entries[Len(iteration.entries)].value)
    IN  Drain(traverse(segments, value))

has(segments, root) ==
    IF get(segments, root).status = "throw" THEN Return(Boolean(FALSE)) ELSE Return(Boolean(TRUE))

(***************************************************************************)
(* JsonPointer.set, unset                                                  *)
(***************************************************************************)
\* The tree in which the value at the location `path` is `value`: the
\* effect on the tree of mutating in place the value that get returned by
\* reference for that location.
RECURSIVE ReplaceAt(_, _, _)
ReplaceAt(tree, path, value) ==
    IF Len(path) = 0 THEN value
    ELSE IF IsArray(tree)
    THEN [tree EXCEPT !.items[path[1].n] = ReplaceAt(@, Tail(path), value)]
    ELSE [tree EXCEPT !.props[path[1].s] = ReplaceAt(@, Tail(path), value)]

\* SetInParent without the check of the index against the length
SetInParentUnchecked(parent, segment, value, at) ==
    LET Abort(err) == [parent |-> parent, err |-> err]
        Done(p) == [parent |-> p, err |-> NoError]
    IN  IF segment.kind = "number" \/ segment = Dash
        THEN IF ~IsArray(parent)
             THEN Abort(Error("Error", "Expected array, got object", <<>>, at))
             ELSE IF segment = Dash
             THEN Done(Push(parent, value))
             ELSE Done(WithIndex(parent, segment.n, value))
        ELSE IF IsArray(parent)
        THEN Abort(Error("Error", "Expected an object, got an array", <<>>, at))
        ELSE Done(WithKey(parent, segment.s, value))

\* SetInParent with the index compared by >= instead of >
SetInParentStrict(parent, segment, value, at) ==
    LET Abort(err) == [parent |-> parent, err |-> err]
        Done(p) == [parent |-> p, err |-> NoError]
    IN  IF segment.kind = "number" \/ segment = Dash
        THEN IF ~IsArray(parent)
             THEN Abort(Error("Error", "Expected array, got object", <<>>, at))
             ELSE IF segment = Dash
             THEN Done(Push(parent, value))
             ELSE IF segment.n >= parent.length
             THEN Abort(Error("InvalidReferenceError", "Index is out of bounds at",
                              NumberToString(segment.n), at))
             ELSE Done(WithIndex(parent, segment.n, value))
        ELSE IF IsArray(parent)
        THEN Abort(Error("Error", "Expected an object, got an array", <<>>, at))
        ELSE Done(WithKey(parent, segment.s, value))

\* The part of set after the parent is resolved to a structure: the parent
\* as mutated, or the error thrown (the parent is then untouched).
\* A write that appends the value before it checks the index
SetInParentWritingFirst(parent, segment, value, at) ==
    LET Abort(p, err) == [parent |-> p, err |-> err]
        Done(p) == [parent |-> p, err |-> NoError]
    IN  IF segment.kind = "number" \/ segment = Dash
        THEN IF ~IsArray(parent)
             THEN Abort(parent, Error("Error", "Expected array, got object", <<>>, at))
             ELSE IF segment = Dash
             THEN Done(Push(parent, value))
             ELSE IF segment.n > parent.length
             THEN Abort(Push(parent, value),
                        Error("InvalidReferenceError", "Index is out of bounds at",
                              NumberToString(segment.n), at))
             ELSE Done(WithIndex(parent, segment.n, value))
        ELSE IF IsArray(parent)
        THEN Abort(parent, Error("Error", "Expected an object, got an array", <<>>, at))
        ELSE Done(WithKey(parent, segment.s, value))

\* A write that takes '-' for a key when the parent is an object
SetInParentDashAsKey(parent, segment, value, at) ==
    LET Abort(err) == [parent |-> parent, err |-> err]
        Done(p) == [parent |-> p, err |-> NoError]
    IN  IF IsArray(parent)
        THEN IF segment = Dash
             THEN Done(Push(parent, value))
             ELSE IF segment.kind # "number"
             THEN Abort(Error("Error", "Expected an object, got an array", <<>>, at))
             ELSE IF segment.n > parent.length
             THEN Abort(Error("InvalidReferenceError", "Index is out of bounds at",
                              NumberToString(segment.n), at))
             ELSE Done(WithIndex(parent, segment.n, value))
        ELSE IF segment.kind = "number"
        THEN Abort(Error("Error", "Expected array, got object", <<>>, at))
        ELSE Done(WithKey(parent, segment.s, value))

SetInParent(parent, segment, value, at) ==
    LET Abort(err) == [parent |-> parent, err |-> err]
        Done(p) == [parent |-> p, err |-> NoError]
    IN  IF segment.kind = "number" \/ segment = Dash
        THEN IF ~IsArray(parent)
             THEN Abort(Error("Error", "Expected array, got object", <<>>, at))
             ELSE IF segment = Dash
             THEN Done(Push(parent, value))
             ELSE IF segment.n > parent.length
             THEN Abort(Error("InvalidReferenceError", "Index is out of bounds at",
                              NumberToString(segment.n), at))
             ELSE Done(WithIndex(parent, segment.n, value))
        ELSE IF IsArray(parent)
        THEN Abort(Error("Error", "Expected an object, got an array", <<>>, at))
        ELSE Done(WithKey(parent, segment.s, value))

\* set without the check of the root pointer: getParent throws
setWithoutRootCheck(segments, root, value) ==
    IF isRoot(segments)
    THEN [root |-> root, err |-> getParent(segments).err]
    ELSE LET parentPointer == getParent(segments).segments
             Write(written) ==
                 [root |-> ReplaceAt(root, parentPointer, written.parent),
                  err |-> written.err]
             In(parent, at) ==
                 IF parent.status = "throw"
                 THEN [root |-> root, err |-> parent.err]
                 ELSE IF ~IsStructure(parent.value)
                 THEN [root |-> root,
                       err |-> Error("JsonPointerError", "Cannot set value at", <<>>, at)]
                 ELSE Write(SetInParent(parent.value, segments[Len(segments)], value, at))
         IN  In(get(parentPointer, root), toString(parentPointer))

\* set(root, value): the tree after the call and the error thrown, if any.
set(segments, root, value) ==
    IF isRoot(segments)
    THEN [root |-> root, err |-> Error("JsonPointerError", "Cannot set root value", <<>>, <<>>)]
    ELSE LET parentPointer == getParent(segments).segments
             Write(written) ==
                 [root |-> ReplaceAt(root, parentPointer, written.parent),
                  err |-> written.err]
             In(parent, at) ==
                 IF parent.status = "throw"
                 THEN [root |-> root, err |-> parent.err]
                 ELSE IF ~IsStructure(parent.value)
                 THEN [root |-> root,
                       err |-> Error("JsonPointerError", "Cannot set value at", <<>>, at)]
                 ELSE Write(SetInParent(parent.value, segments[Len(segments)], value, at))
         IN  In(get(parentPointer, root), toString(parentPointer))

\* The part of unset after the parent is resolved to a structure: the
\* parent as mutated and the value returned.
UnsetInParent(parent, segment) ==
    LET Nothing == [parent |-> parent, value |-> Undefined]
    IN  IF segment.kind = "number"
        THEN IF ~IsArray(parent) \/ segment.n >= parent.length
             THEN Nothing
             ELSE [parent |-> Splice(parent, segment.n), value |-> ItemAt(parent, segment.n)]
        ELSE IF IsArray(parent) \/ ~HasKey(parent, segment.s)
        THEN Nothing
        ELSE [parent |-> WithoutKey(parent, segment.s), value |-> parent.props[segment.s]]

\* unset without the try around the get of the parent
unsetWithoutCatch(segments, root) ==
    IF isRoot(segments)
    THEN [root |-> root,
          out |-> Throw(Error("InvalidReferenceError", "Cannot unset the root value",
                              <<>>, <<>>))]
    ELSE LET parentPointer == getParent(segments).segments
             Remove(removed) ==
                 [root |-> ReplaceAt(root, parentPointer, removed.parent),
                  out |-> Return(removed.value)]
             In(parent) ==
                 IF parent.status = "throw"
                 THEN [root |-> root, out |-> parent]
                 ELSE IF ~IsStructure(parent.value)
                 THEN [root |-> root, out |-> Return(Undefined)]
                 ELSE Remove(UnsetInParent(parent.value, segments[Len(segments)]))
         IN  In(get(parentPointer, root))

\* unset(root): the tree after the call and the value returned or the error
\* thrown.
unset(segments, root) ==
    IF isRoot(segments)
    THEN [root |-> root,
          out |-> Throw(Error("InvalidReferenceError", "Cannot unset the root value",
                              <<>>, <<>>))]
    ELSE LET parentPointer == getParent(segments).segments
             Remove(removed) ==
                 [root |-> ReplaceAt(root, parentPointer, removed.parent),
                  out |-> Return(removed.value)]
             In(parent) ==
                 IF parent.status = "throw"
                 THEN [root |-> root, out |-> Return(Undefined)]
                 ELSE IF ~IsStructure(parent.value)
                 THEN [root |-> root, out |-> Return(Undefined)]
                 ELSE Remove(UnsetInParent(parent.value, segments[Len(segments)]))
         IN  In(get(parentPointer, root))

(***************************************************************************)
(* JsonRelativePointer                                                     *)
(***************************************************************************)
\* `${segment}`
SegmentString(segment) ==
    IF segment.kind = "number" THEN NumberToString(segment.n) ELSE segment.s

\* The longest prefix of s made of decimal digits
RECURSIVE LeadingDigits(_)
LeadingDigits(s) ==
    IF Len(s) = 0 \/ ~IsDigit(s[1]) THEN <<>> ELSE <<s[1]>> \o LeadingDigits(Tail(s))

\* The number of decimal digits in s from position i on
RECURSIVE DigitsAt(_, _)
DigitsAt(s, i) ==
    IF i > Len(s) \/ ~IsDigit(s[i]) THEN 0 ELSE 1 + DigitsAt(s, i + 1)

\* /^\d+([+-]\d+)?#?/ on s: the position that follows the match, or 0
\* when s does not start with a digit
OriginMatch(s) ==
    LET Hash(i) == IF i <= Len(s) /\ s[i] = "#" THEN i + 1 ELSE i
        Offset(i) ==
            IF i <= Len(s) /\ s[i] \in {"+", "-"} /\ DigitsAt(s, i + 1) > 0
            THEN i + 1 + DigitsAt(s, i + 1)
            ELSE i
        Index(digits) == IF digits = 0 THEN 0 ELSE Hash(Offset(digits + 1))
    IN  Index(DigitsAt(s, 1))

OriginError ==
    Error("InvalidSyntaxError",
          "A relative JSON pointer must start with a non-negative integer", <<>>, <<>>)

\* relativeFromSegments that accepts an empty list
relativeFromSegmentsUnchecked(segments) == from(segments)

\* JsonRelativePointer.fromSegments
relativeFromSegments(segments) ==
    IF Len(segments) = 0
    THEN Failed(Error("InvalidSyntaxError",
                      "A relative pointer must have at least one segment", <<>>, <<>>))
    ELSE from(segments)

\* JsonRelativePointer.from for an array of segments
relativeFrom(path) ==
    IF Len(path) > 0 /\ OriginMatch(SegmentString(path[1])) # Len(SegmentString(path[1])) + 1
    THEN Failed(OriginError)
    ELSE relativeFromSegments(path)

\* JsonRelativePointer.parse
relativeParse(path) ==
    LET FromParsed(pointer) ==
            IF pointer.ok THEN relativeFromSegments(pointer.segments) ELSE pointer
        After(end) ==
            IF end = 0 \/ (end <= Len(path) /\ path[end] # "/")
            THEN Failed(OriginError)
            ELSE FromParsed(parse(<<"/">> \o path))
    IN  After(OriginMatch(path))

\* this.equals(other) of a JsonRelativePointer, for any value other
relativeEquals(this, other) ==
    IF this = other THEN TRUE
    ELSE IF other.class # "JsonRelativePointer" THEN FALSE
    ELSE equals(this.segments, other.segments)

\* toString of a JsonRelativePointer: the origin token, then the string of
\* the pointer made from the other segments
relativeToString(segments) ==
    LET Suffixed(remainingSegments) ==
            IF remainingSegments.ok
            THEN Return(SegmentString(segments[1]) \o toString(remainingSegments.segments))
            ELSE Throw(remainingSegments.err)
    IN  Suffixed(from(Tail(segments)))

isKeyPointer(segments) ==
    LET origin == SegmentString(segments[1])
    IN  Len(origin) > 0 /\ origin[Len(origin)] = "#"

getParentIndex(segments) == ParseDigits(LeadingDigits(SegmentString(segments[1])))

\* /([+-]\d+)#?$/ on the origin token: the signed integer that ends the
\* token, an optional '#' aside; 0 without a match.
getParentIndexOffset(segments) ==
    LET origin == SegmentString(segments[1])
        body == IF Len(origin) > 0 /\ origin[Len(origin)] = "#"
                THEN SubSeq(origin, 1, Len(origin) - 1)
                ELSE origin
        signs == {i \in 1..Len(body) :
                    /\ body[i] \in {"+", "-"}
                    /\ AllDigits(SubSeq(body, i + 1, Len(body)))}
    IN  IF signs = {}
        THEN 0
        ELSE LET i == CHOOSE i \in signs : TRUE
                 magnitude == ParseDigits(SubSeq(body, i + 1, Len(body)))
             IN  IF body[i] = "-" THEN 0 - magnitude ELSE magnitude

getRemainderPointer(segments) == from(Tail(segments)).segments

\* this.joinedWith(other) of a relative pointer, for a pointer other: the
\* relative pointer, or the error thrown
relativeJoinedWith(this, other) ==
    IF isKeyPointer(this)
    THEN Failed(Error("JsonPointerError", "Cannot join a key pointer", <<>>, <<>>))
    ELSE IF isRoot(other) THEN Built(this)
    ELSE relativeFromSegments(this \o other)

\* A resolve that appends the remainder to the whole base pointer
resolveKeepingBase(segments, pointer) ==
    IF isKeyPointer(segments)
    THEN Failed(Error("JsonPointerError",
                      "A key pointer cannot be resolved to an absolute pointer", <<>>, <<>>))
    ELSE IF getParentIndexOffset(segments) # 0
    THEN Failed(Error("JsonPointerError",
                      "A pointer with an offset cannot be resolved to an absolute pointer",
                      <<>>, <<>>))
    ELSE LET Ascend(parentIndex) ==
                 IF parentIndex > Len(pointer)
                 THEN Failed(Error("JsonPointerError", "The relative pointer is out of bounds",
                                   <<>>, <<>>))
                 ELSE from(pointer \o Tail(segments))
         IN  Ascend(getParentIndex(segments))

\* relative.resolve(pointer): the absolute pointer, or the error thrown
resolve(segments, pointer) ==
    IF isKeyPointer(segments)
    THEN Failed(Error("JsonPointerError",
                      "A key pointer cannot be resolved to an absolute pointer", <<>>, <<>>))
    ELSE IF getParentIndexOffset(segments) # 0
    THEN Failed(Error("JsonPointerError",
                      "A pointer with an offset cannot be resolved to an absolute pointer",
                      <<>>, <<>>))
    ELSE LET Ascend(parentIndex) ==
                 IF parentIndex > Len(pointer)
                 THEN Failed(Error("JsonPointerError", "The relative pointer is out of bounds",
                                   <<>>, <<>>))
                 ELSE from((IF parentIndex > 0
                            THEN SubSeq(pointer, 1, Len(pointer) - parentIndex)
                            ELSE pointer) \o Tail(segments))
         IN  Ascend(getParentIndex(segments))

\* getReferenceStack that returns the whole stack of the base pointer when
\* there is no offset
getReferenceStackWithoutAscent(segments, root, pointer) ==
    LET Fail(err) == [stack |-> <<>>, err |-> err]
        Ascend(stack, parentIndex, offset) ==
            LET stackIndex == Len(stack) - parentIndex - 1
            IN  IF parentIndex >= Len(stack)
                THEN Fail(Error("JsonPointerError", "The relative pointer is out of bounds",
                                <<>>, <<>>))
                ELSE IF offset # 0
                THEN LET entry == stack[stackIndex + 1]
                     IN  IF \/ stackIndex = 0
                            \/ ~IsArray(stack[stackIndex].value)
                            \/ entry.segment.kind # "number"
                         THEN Fail(Error("InvalidReferenceError",
                                         "An offset can only be applied to array elements",
                                         <<>>, <<>>))
                         ELSE LET elements == stack[stackIndex].value
                                  offsetIndex == entry.segment.n + offset
                              IN  IF offsetIndex < 0 \/ offsetIndex >= elements.length
                                  THEN Fail(Error("InvalidReferenceError",
                                                  "The element index is out of bounds",
                                                  <<>>, <<>>))
                                  ELSE [stack |-> Append(SubSeq(stack, 1, stackIndex),
                                                         Entry(Num(offsetIndex),
                                                               ItemAt(elements, offsetIndex))),
                                        err |-> NoError]
                ELSE [stack |-> stack, err |-> NoError]
        Drain(iteration) ==
            IF iteration.err # NoError
            THEN Fail(iteration.err)
            ELSE Ascend(iteration.entries, getParentIndex(segments),
                        getParentIndexOffset(segments))
    IN  Drain(traverse(pointer, root))

\* getReferenceStack with the offset subtracted from the index
getReferenceStackOffsetReversed(segments, root, pointer) ==
    LET Fail(err) == [stack |-> <<>>, err |-> err]
        Ascend(stack, parentIndex, offset) ==
            LET stackIndex == Len(stack) - parentIndex - 1
            IN  IF parentIndex >= Len(stack)
                THEN Fail(Error("JsonPointerError", "The relative pointer is out of bounds",
                                <<>>, <<>>))
                ELSE IF offset # 0
                THEN LET entry == stack[stackIndex + 1]
                     IN  IF \/ stackIndex = 0
                            \/ ~IsArray(stack[stackIndex].value)
                            \/ entry.segment.kind # "number"
                         THEN Fail(Error("InvalidReferenceError",
                                         "An offset can only be applied to array elements",
                                         <<>>, <<>>))
                         ELSE LET elements == stack[stackIndex].value
                                  offsetIndex == entry.segment.n - offset
                              IN  IF offsetIndex < 0 \/ offsetIndex >= elements.length
                                  THEN Fail(Error("InvalidReferenceError",
                                                  "The element index is out of bounds",
                                                  <<>>, <<>>))
                                  ELSE [stack |-> Append(SubSeq(stack, 1, stackIndex),
                                                         Entry(Num(offsetIndex),
                                                               ItemAt(elements, offsetIndex))),
                                        err |-> NoError]
                ELSE [stack |-> SubSeq(stack, 1, stackIndex + 1), err |-> NoError]
        Drain(iteration) ==
            IF iteration.err # NoError
            THEN Fail(iteration.err)
            ELSE Ascend(iteration.entries, getParentIndex(segments),
                        getParentIndexOffset(segments))
    IN  Drain(traverse(pointer, root))

\* The stack of entries from the root to the entry the origin token
\* designates, or the error thrown.
getReferenceStack(segments, root, pointer) ==
    LET Fail(err) == [stack |-> <<>>, err |-> err]
        Ascend(stack, parentIndex, offset) ==
            LET stackIndex == Len(stack) - parentIndex - 1
            IN  IF parentIndex >= Len(stack)
                THEN Fail(Error("JsonPointerError", "The relative pointer is out of bounds",
                                <<>>, <<>>))
                ELSE IF offset # 0
                THEN LET entry == stack[stackIndex + 1]
                     IN  IF \/ stackIndex = 0
                            \/ ~IsArray(stack[stackIndex].value)
                            \/ entry.segment.kind # "number"
                         THEN Fail(Error("InvalidReferenceError",
                                         "An offset can only be applied to array elements",
                                         <<>>, <<>>))
                         ELSE LET elements == stack[stackIndex].value
                                  offsetIndex == entry.segment.n + offset
                              IN  IF offsetIndex < 0 \/ offsetIndex >= elements.length
                                  THEN Fail(Error("InvalidReferenceError",
                                                  "The element index is out of bounds",
                                                  <<>>, <<>>))
                                  ELSE [stack |-> Append(SubSeq(stack, 1, stackIndex),
                                                         Entry(Num(offsetIndex),
                                                               ItemAt(elements, offsetIndex))),
                                        err |-> NoError]
                ELSE [stack |-> SubSeq(stack, 1, stackIndex + 1), err |-> NoError]
        Drain(iteration) ==
            IF iteration.err # NoError
            THEN Fail(iteration.err)
            ELSE Ascend(iteration.entries, getParentIndex(segments),
                        getParentIndexOffset(segments))
    IN  Drain(traverse(pointer, root))

\* A returned segment (the key a key pointer designates)
ReturnKey(segment) ==
    IF segment.kind = "number" THEN Return(Number(segment.n)) ELSE Return(String(segment.s))

\* get that returns the value of the target entry for a key pointer too
relativeGetValueOfKey(segments, root, pointer) ==
    LET Resolve(top) == get(getRemainderPointer(segments), top.value)
        From(reference) ==
            IF reference.err # NoError
            THEN Throw(reference.err)
            ELSE Resolve(reference.stack[Len(reference.stack)])
    IN  From(getReferenceStack(segments, root, pointer))

relativeGet(segments, root, pointer) ==
    LET Resolve(top) ==
            IF isKeyPointer(segments)
            THEN IF top.segment = NullSegment
                 THEN Throw(Error("InvalidReferenceError", "The root value has no key",
                                  <<>>, <<>>))
                 ELSE ReturnKey(top.segment)
            ELSE get(getRemainderPointer(segments), top.value)
        From(reference) ==
            IF reference.err # NoError
            THEN Throw(reference.err)
            ELSE Resolve(reference.stack[Len(reference.stack)])
    IN  From(getReferenceStack(segments, root, pointer))

\* has that catches the reference errors only
relativeHasCatchingReferenceErrors(segments, root, pointer) ==
    LET Catch(result) ==
            IF result.status = "throw"
            THEN IF result.err.kind = "InvalidReferenceError"
                 THEN Return(Boolean(FALSE))
                 ELSE result
            ELSE Return(Boolean(TRUE))
    IN  Catch(relativeGet(segments, root, pointer))

relativeHas(segments, root, pointer) ==
    IF relativeGet(segments, root, pointer).status = "throw"
    THEN Return(Boolean(FALSE))
    ELSE Return(Boolean(TRUE))

\* The location in the tree of the value of the last entry of a stack
StackLocation(stack) == [i \in 1..(Len(stack) - 1) |-> stack[i + 1].segment]

\* A set that builds the stack of entries before it looks at the key status
relativeSetKeyCheckedLast(segments, root, value, pointer) ==
    LET Fail(err) == [root |-> root, err |-> err]
        Write(location, written) ==
            [root |-> ReplaceAt(root, location, written.root), err |-> written.err]
        Into(stack, remainderPointer) ==
            IF isKeyPointer(segments)
            THEN Fail(Error("JsonPointerError", "Cannot write to a key", <<>>, <<>>))
            ELSE IF ~isRoot(remainderPointer)
            THEN Write(StackLocation(stack),
                       set(remainderPointer, stack[Len(stack)].value, value))
            ELSE IF Len(stack) < 2
            THEN Fail(Error("JsonPointerError", "Cannot set the root value", <<>>, <<>>))
            ELSE Write(StackLocation(SubSeq(stack, 1, Len(stack) - 1)),
                       set(from(<<stack[Len(stack)].segment>>).segments,
                           stack[Len(stack) - 1].value, value))
        From(reference) ==
            IF reference.err # NoError
            THEN Fail(reference.err)
            ELSE Into(reference.stack, getRemainderPointer(segments))
    IN  From(getReferenceStack(segments, root, pointer))

\* A set that asks for two stack entries before it looks at the remainder
relativeSetNeedingParent(segments, root, value, pointer) ==
    LET Fail(err) == [root |-> root, err |-> err]
        Write(location, written) ==
            [root |-> ReplaceAt(root, location, written.root), err |-> written.err]
        Into(stack, remainderPointer) ==
            IF Len(stack) < 2
            THEN Fail(Error("JsonPointerError", "Cannot set the root value", <<>>, <<>>))
            ELSE IF ~isRoot(remainderPointer)
            THEN Write(StackLocation(stack),
                       set(remainderPointer, stack[Len(stack)].value, value))
            ELSE Write(StackLocation(SubSeq(stack, 1, Len(stack) - 1)),
                       set(from(<<stack[Len(stack)].segment>>).segments,
                           stack[Len(stack) - 1].value, value))
        From(reference) ==
            IF reference.err # NoError
            THEN Fail(reference.err)
            ELSE Into(reference.stack, getRemainderPointer(segments))
    IN  IF isKeyPointer(segments)
        THEN Fail(Error("JsonPointerError", "Cannot write to a key", <<>>, <<>>))
        ELSE From(getReferenceStack(segments, root, pointer))

\* relative.set(root, value, pointer): the tree after the call and the
\* error thrown, if any.
relativeSet(segments, root, value, pointer) ==
    LET Fail(err) == [root |-> root, err |-> err]
        Write(location, written) ==
            [root |-> ReplaceAt(root, location, written.root), err |-> written.err]
        Into(stack, remainderPointer) ==
            IF ~isRoot(remainderPointer)
            THEN Write(StackLocation(stack),
                       set(remainderPointer, stack[Len(stack)].value, value))
            ELSE IF Len(stack) < 2
            THEN Fail(Error("JsonPointerError", "Cannot set the root value", <<>>, <<>>))
            ELSE Write(StackLocation(SubSeq(stack, 1, Len(stack) - 1)),
                       set(from(<<stack[Len(stack)].segment>>).segments,
                           stack[Len(stack) - 1].value, value))
        From(reference) ==
            IF reference.err # NoError
            THEN Fail(reference.err)
            ELSE Into(reference.stack, getRemainderPointer(segments))
    IN  IF isKeyPointer(segments)
        THEN Fail(Error("JsonPointerError", "Cannot write to a key", <<>>, <<>>))
        ELSE From(getReferenceStack(segments, root, pointer))

\* relative.unset(root, pointer): the tree after the call and the value
\* returned or the error thrown.
relativeUnset(segments, root, pointer) ==
    LET Fail(err) == [root |-> root, out |-> Throw(err)]
        Remove(location, removed) ==
            [root |-> ReplaceAt(root, location, removed.root), out |-> removed.out]
        Into(stack, remainderPointer) ==
            IF ~isRoot(remainderPointer)
            THEN Remove(StackLocation(stack),
                        unset(remainderPointer, stack[Len(stack)].value))
            ELSE IF Len(stack) < 2
            THEN Fail(Error("JsonPointerError", "Cannot unset the root value", <<>>, <<>>))
            ELSE Remove(StackLocation(SubSeq(stack, 1, Len(stack) - 1)),
                        unset(from(<<stack[Len(stack)].segment>>).segments,
                              stack[Len(stack) - 1].value))
        From(reference) ==
            IF reference.err # NoError
            THEN Fail(reference.err)
            ELSE Into(reference.stack, getRemainderPointer(segments))
    IN  IF isKeyPointer(segments)
        THEN Fail(Error("JsonPointerError", "Cannot write to a key", <<>>, <<>>))
        ELSE From(getReferenceStack(segments, root, pointer))

(***************************************************************************)
(* The program: a caller that owns a JSON tree and makes one call after    *)
(* the other on it                                                         *)
(***************************************************************************)
VARIABLES
    root,       \* the JSON tree the caller owns
    pc,         \* "idle": between two calls; "returned": a call has ended
    call,       \* the call that ended: operation and arguments
    before,     \* the tree when that call was made
    outcome,    \* what that call returned or threw
    entries,    \* the entries that call was yielded, when it is a traverse
    step,       \* the last pointer-building call: "none", "from", "toString", "parse"
    path,       \* the list of segments last given to JsonPointer.from
    built,      \* the pointer JsonPointer.from returned, or its error
    text,       \* the string toString returned for that pointer
    parsed,     \* the pointer JsonPointer.parse returned for that string, or its error
    applied,    \* the last call of a method that derives a pointer from pointers
    compared    \* the values a caller compares, and what equals and toString returned

treeVars == <<root, pc, call, before, outcome, entries>>

pointerVars == <<step, path, built, text, parsed, applied, compared>>

vars ==
    <<root, pc, call, before, outcome, entries, step, path, built, text, parsed, applied,
      compared>>

\* The deepest pointer the caller uses
MaxDepth == 2

\* The largest tree (counted in values) the caller lets a set produce
MaxSize == 4

Segments == {Num(0), Num(1), Num(2), Str(<<"a">>), Dash}

RECURSIVE SequencesUpTo(_, _)
SequencesUpTo(S, n) ==
    IF n = 0
    THEN {<<>>}
    ELSE LET shorter == SequencesUpTo(S, n - 1)
         IN  shorter \cup {Append(p, x) : p \in {q \in shorter : Len(q) = n - 1}, x \in S}

Pointers == SequencesUpTo(Segments, MaxDepth)

Values == {Number(3), Arr(<<>>)}

\* {"a": [1, 2], "b": {}} and [{"a": null}, 1]
InitialTrees ==
    { Obj([k \in {<<"a">>, <<"b">>} |->
              IF k = <<"a">> THEN Arr(<<Number(1), Number(2)>>) ELSE Obj(NoProps)]),
      Arr(<<Obj([k \in {<<"a">>} |-> Null]), Number(1)>>) }

\* The origin tokens of the relative pointers the caller uses
Origins ==
    {Num(0), Num(1), Num(2), Num(3),
     Str(<<"0", "#">>), Str(<<"1", "#">>), Str(<<"0", "+", "1">>), Str(<<"1", "-", "1">>),
     Str(<<"0", "+", "1", "#">>)}

RelativePointers == {<<origin>> \o p : origin \in Origins, p \in {q \in Pointers : Len(q) < MaxDepth}}

\* The number of values in a tree
RECURSIVE Size(_)
RECURSIVE SizeOfItems(_, _)
RECURSIVE SizeOfProps(_, _)
Size(value) ==
    1 + SizeOfItems(value, DOMAIN value.items) + SizeOfProps(value, DOMAIN value.props)
SizeOfItems(value, indices) ==
    IF indices = {} THEN 0
    ELSE LET i == CHOOSE i \in indices : TRUE
         IN  Size(value.items[i]) + SizeOfItems(value, indices \ {i})
SizeOfProps(value, keys) ==
    IF keys = {} THEN 0
    ELSE LET k == CHOOSE k \in keys : TRUE
         IN  Size(value.props[k]) + SizeOfProps(value, keys \ {k})

Call(op, pointer, relative, value) ==
    [op |-> op, pointer |-> pointer, relative |-> relative, value |-> value]

NoCall == Call("none", <<>>, <<>>, Undefined)

NoPointer == Built(<<>>)

\* this.op(other) or this.op(depth) and what it returned: a pointer or an
\* error in `result`, a boolean in `equal`
Applied(op, this, other, depth, result, equal) ==
    [op |-> op, this |-> this, other |-> other, depth |-> depth, result |-> result,
     equal |-> equal]

NotApplied == Applied("none", <<>>, <<>>, 0, NoPointer, FALSE)

\* The values a, b and c a caller holds, what its calls of equals returned
\* so far and what its calls of toString returned so far
Compared(a, b, c, equal, strings) ==
    [a |-> a, b |-> b, c |-> c, equal |-> equal, strings |-> strings]

NotCompared ==
    Compared(Instance("Object", <<>>), Instance("Object", <<>>), Instance("Object", <<>>),
             <<>>, <<>>)

Init ==
    /\ root \in InitialTrees
    /\ pc = "idle"
    /\ call = NoCall
    /\ before = root
    /\ outcome = Return(Undefined)
    /\ entries = <<>>
    /\ step = "none"
    /\ path = <<>>
    /\ built = NoPointer
    /\ text = <<>>
    /\ parsed = NoPointer
    /\ applied = NotApplied
    /\ compared = NotCompared

\* pointer.set(root, value)
Set(pointer, value) ==
    \E result \in {set(pointer, root, value)} :
        /\ pc = "idle"
        /\ Size(result.root) <= MaxSize
        /\ root' = result.root
        /\ pc' = "returned"
        /\ call' = Call("set", pointer, <<>>, value)
        /\ before' = root
        /\ outcome' = IF result.err = NoError THEN Return(Undefined) ELSE Throw(result.err)
        /\ entries' = <<>>
        /\ UNCHANGED pointerVars

\* pointer.unset(root)
Unset(pointer) ==
    \E result \in {unset(pointer, root)} :
        /\ pc = "idle"
        /\ root' = result.root
        /\ pc' = "returned"
        /\ call' = Call("unset", pointer, <<>>, Undefined)
        /\ before' = root
        /\ outcome' = result.out
        /\ entries' = <<>>
        /\ UNCHANGED pointerVars

\* A get that takes the value it returns out of the tree
GetRemoving(pointer) ==
    /\ pc = "idle"
    /\ pc' = "returned"
    /\ call' = Call("get", pointer, <<>>, Undefined)
    /\ before' = root
    /\ outcome' = get(pointer, root)
    /\ entries' = <<>>
    /\ root' = unset(pointer, root).root
    /\ UNCHANGED pointerVars

\* pointer.get(root)
Get(pointer) ==
    /\ pc = "idle"
    /\ pc' = "returned"
    /\ call' = Call("get", pointer, <<>>, Undefined)
    /\ before' = root
    /\ outcome' = get(pointer, root)
    /\ entries' = <<>>
    /\ UNCHANGED <<root, pointerVars>>

\* pointer.has(root)
Has(pointer) ==
    /\ pc = "idle"
    /\ pc' = "returned"
    /\ call' = Call("has", pointer, <<>>, Undefined)
    /\ before' = root
    /\ outcome' = has(pointer, root)
    /\ entries' = <<>>
    /\ UNCHANGED <<root, pointerVars>>

\* The caller drains pointer.traverse(root)
Traverse(pointer) ==
    LET iteration == traverse(pointer, root)
    IN  /\ pc = "idle"
        /\ pc' = "returned"
        /\ call' = Call("traverse", pointer, <<>>, Undefined)
        /\ before' = root
        /\ outcome' = IF iteration.err = NoError THEN Return(Undefined)
                      ELSE Throw(iteration.err)
        /\ entries' = iteration.entries
        /\ UNCHANGED <<root, pointerVars>>

\* relative.get(root, pointer)
RelativeGet(relative, pointer) ==
    /\ pc = "idle"
    /\ pc' = "returned"
    /\ call' = Call("relativeGet", pointer, relative, Undefined)
    /\ before' = root
    /\ outcome' = relativeGet(relative, root, pointer)
    /\ entries' = <<>>
    /\ UNCHANGED <<root, pointerVars>>

\* relative.has(root, pointer)
RelativeHas(relative, pointer) ==
    /\ pc = "idle"
    /\ pc' = "returned"
    /\ call' = Call("relativeHas", pointer, relative, Undefined)
    /\ before' = root
    /\ outcome' = relativeHas(relative, root, pointer)
    /\ entries' = <<>>
    /\ UNCHANGED <<root, pointerVars>>

\* The caller has looked at the outcome of the call and goes on
Continue ==
    /\ pc = "returned"
    /\ pc' = "idle"
    /\ call' = NoCall
    /\ before' = root
    /\ outcome' = Return(Undefined)
    /\ entries' = <<>>
    /\ UNCHANGED <<root, pointerVars>>

\* The calls on absolute pointers
Next ==
    \/ pc = "idle" /\ \E pointer \in Pointers, value \in Values : Set(pointer, value)
    \/ pc = "idle" /\ \E pointer \in Pointers : Unset(pointer)
    \/ pc = "idle" /\ \E pointer \in Pointers : Get(pointer)
    \/ pc = "idle" /\ \E pointer \in Pointers : Has(pointer)
    \/ pc = "idle" /\ \E pointer \in Pointers : Traverse(pointer)
    \/ Continue

Spec == Init /\ [][Next]_vars

\* The trees the read calls are made on: the initial trees, the nested
\* arrays [[1], [2, null]] and the number 1
RelativeTrees ==
    InitialTrees \cup {Arr(<<Arr(<<Number(1)>>), Arr(<<Number(2), Null>>)>>), Number(1)}

RelativeInit ==
    /\ root \in RelativeTrees
    /\ pc = "idle"
    /\ call = NoCall
    /\ before = root
    /\ outcome = Return(Undefined)
    /\ entries = <<>>
    /\ step = "none"
    /\ path = <<>>
    /\ built = NoPointer
    /\ text = <<>>
    /\ parsed = NoPointer
    /\ applied = NotApplied
    /\ compared = NotCompared

\* The read calls on relative pointers and on absolute pointers
RelativeNext ==
    \/ pc = "idle" /\ \E relative \in RelativePointers, pointer \in Pointers :
                          RelativeGet(relative, pointer)
    \/ pc = "idle" /\ \E relative \in RelativePointers, pointer \in Pointers :
                          RelativeHas(relative, pointer)
    \/ pc = "idle" /\ \E pointer \in Pointers : Get(pointer)
    \/ pc = "idle" /\ \E pointer \in Pointers : Has(pointer)
    \/ Continue

RelativeSpec == RelativeInit /\ [][RelativeNext]_vars

(***************************************************************************)
(* The program: a caller that makes one call on a relative pointer, a read *)
(* or a write, on a JSON tree                                              *)
(***************************************************************************)
\* relative.set(root, value, pointer)
RelativeSet(relative, pointer, value) ==
    \E result \in {relativeSet(relative, root, value, pointer)} :
        /\ pc = "idle"
        /\ root' = result.root
        /\ pc' = "returned"
        /\ call' = Call("relativeSet", pointer, relative, value)
        /\ before' = root
        /\ outcome' = IF result.err = NoError THEN Return(Undefined) ELSE Throw(result.err)
        /\ entries' = <<>>
        /\ UNCHANGED pointerVars

\* relative.unset(root, pointer)
RelativeUnset(relative, pointer) ==
    \E result \in {relativeUnset(relative, root, pointer)} :
        /\ pc = "idle"
        /\ root' = result.root
        /\ pc' = "returned"
        /\ call' = Call("relativeUnset", pointer, relative, Undefined)
        /\ before' = root
        /\ outcome' = result.out
        /\ entries' = <<>>
        /\ UNCHANGED pointerVars

RelativeWriteNext ==
    \/ pc = "idle" /\ \E relative \in RelativePointers, pointer \in Pointers :
                          RelativeGet(relative, pointer)
    \/ pc = "idle" /\ \E relative \in RelativePointers, pointer \in Pointers, value \in Values :
                          RelativeSet(relative, pointer, value)
    \/ pc = "idle" /\ \E relative \in RelativePointers, pointer \in Pointers :
                          RelativeUnset(relative, pointer)

RelativeWriteSpec == RelativeInit /\ [][RelativeWriteNext]_vars

(***************************************************************************)
(* The program: a caller that builds a pointer from a list of segments,    *)
(* serializes it and parses the string back                                *)
(***************************************************************************)
\* The largest list of segments given to JsonPointer.from, each segment
\* counting for one more than the characters it is written with
MaxPathSize == 5

Alphabet == {"a", "~", "/", "0", "1"}

RawNumbers == {0, 12}

RECURSIVE StringsOfLength(_)
StringsOfLength(n) ==
    IF n = 0
    THEN {<<>>}
    ELSE {Append(s, c) : s \in StringsOfLength(n - 1), c \in Alphabet}

\* The segments a caller writes with n characters
RawSegments(n) ==
    {Str(s) : s \in StringsOfLength(n)}
        \cup {Num(x) : x \in {y \in RawNumbers : Len(NumberToString(y)) = n}}

RECURSIVE PathsWithin(_)
PathsWithin(size) ==
    {<<>>} \cup UNION {{<<segment>> \o rest : segment \in RawSegments(n - 1),
                                               rest \in PathsWithin(size - n)} :
                       n \in 1..size}

Paths == PathsWithin(MaxPathSize)

PointerInit ==
    /\ root = Null
    /\ pc = "idle"
    /\ call = NoCall
    /\ before = root
    /\ outcome = Return(Undefined)
    /\ entries = <<>>
    /\ step = "none"
    /\ path = <<>>
    /\ built = NoPointer
    /\ text = <<>>
    /\ parsed = NoPointer
    /\ applied = NotApplied
    /\ compared = NotCompared

\* built = JsonPointer.from(segments)
BuildPointer(segments) ==
    /\ step = "none"
    /\ step' = "from"
    /\ path' = segments
    /\ built' = from(segments)
    /\ UNCHANGED <<text, parsed, applied, compared, treeVars>>

\* text = built.toString()
PrintPointer ==
    /\ step = "from"
    /\ built.ok
    /\ step' = "toString"
    /\ text' = toString(built.segments)
    /\ UNCHANGED <<path, built, parsed, applied, compared, treeVars>>

\* parsed = JsonPointer.parse(text)
ParseText ==
    /\ step = "toString"
    /\ step' = "parse"
    /\ parsed' = parse(text)
    /\ UNCHANGED <<path, built, text, applied, compared, treeVars>>

PointerNext ==
    \/ step = "none" /\ \E segments \in Paths : BuildPointer(segments)
    \/ PrintPointer
    \/ ParseText

PointerSpec == PointerInit /\ [][PointerNext]_vars

(***************************************************************************)
(* The program: a caller that constructs one pointer, from a string or     *)
(* from a list of segments                                                 *)
(***************************************************************************)
\* The longest string given to parse
MaxTextLength == 5

Texts == UNION {StringsOfLength(n) : n \in 0..MaxTextLength}

\* parsed = JsonPointer.parse(string)
ParseString(string) ==
    /\ step = "none"
    /\ step' = "parse"
    /\ text' = string
    /\ parsed' = parse(string)
    /\ UNCHANGED <<path, built, applied, compared, treeVars>>

\* The characters of the strings given to JsonRelativePointer.parse
\* The longest string given to JsonRelativePointer.parse
MaxRelativeTextLength == 4

RelativeAlphabet == {"0", "1", "+", "-", "#", "/", "~"}

RECURSIVE RelativeStringsOfLength(_)
RelativeStringsOfLength(n) ==
    IF n = 0
    THEN {<<>>}
    ELSE {Append(s, c) : s \in RelativeStringsOfLength(n - 1), c \in RelativeAlphabet}

RelativeTexts == UNION {RelativeStringsOfLength(n) : n \in 0..MaxRelativeTextLength}

\* The elements of the lists given to JsonRelativePointer.from
RelativeElements ==
    {Num(0), Num(1), Num(0 - 1), Num(MaxSafeInteger + 1),
     Str(<<"0">>), Str(<<"0", "#">>), Str(<<"1", "+", "1">>), Str(<<"+", "1">>),
     Str(<<"0", "#", "#">>), Str(<<"1", "0", "0", "1">>), Str(<<"a">>), Str(<<>>)}

RelativePaths == SequencesUpTo(RelativeElements, MaxDepth)

\* parsed = JsonRelativePointer.parse(string)
RelativeParseString(string) ==
    /\ step = "none"
    /\ step' = "relativeParse"
    /\ text' = string
    /\ parsed' = relativeParse(string)
    /\ UNCHANGED <<path, built, applied, compared, treeVars>>

\* built = JsonRelativePointer.from(segments)
RelativeBuildPointer(segments) ==
    /\ step = "none"
    /\ step' = "relativeFrom"
    /\ path' = segments
    /\ built' = relativeFrom(segments)
    /\ UNCHANGED <<text, parsed, applied, compared, treeVars>>

ConstructionNext ==
    \/ step = "none" /\ \E string \in RelativeTexts : RelativeParseString(string)
    \/ step = "none" /\ \E segments \in RelativePaths : RelativeBuildPointer(segments)
    \/ step = "none" /\ \E segments \in Paths : BuildPointer(segments)
    \/ step = "none" /\ \E string \in Texts : ParseString(string)

ConstructionSpec == PointerInit /\ [][ConstructionNext]_vars

(***************************************************************************)
(* The program: a caller that derives pointers from the pointers it holds  *)
(***************************************************************************)
\* The origin tokens of the relative pointers the caller resolves: those
\* of the calls on a tree and the zero offsets 0+0 and 1-0
ResolveOrigins == Origins \cup {Str(<<"0", "+", "0">>), Str(<<"1", "-", "0">>)}

ResolvePointers ==
    {<<origin>> \o p : origin \in ResolveOrigins, p \in {q \in Pointers : Len(q) < MaxDepth}}

\* The pointers the caller holds: those of the calls on a tree and two
\* that JsonPointer.parse returns for a numeral above the safe range
AlgebraPointers ==
    Pointers \cup {<<Num(MaxSafeInteger + 1)>>, <<Str(<<"a">>), Num(MaxSafeInteger + 1)>>}

AlgebraInit ==
    /\ root = Null
    /\ pc = "idle"
    /\ call = NoCall
    /\ before = root
    /\ outcome = Return(Undefined)
    /\ entries = <<>>
    /\ step = "none"
    /\ path = <<>>
    /\ built = NoPointer
    /\ text = <<>>
    /\ parsed = NoPointer
    /\ applied = NotApplied
    /\ compared = NotCompared

\* relative.resolve(pointer)
Resolve(relative, pointer) ==
    /\ applied.op = "none"
    /\ applied' = Applied("resolve", relative, pointer, 0, resolve(relative, pointer), FALSE)
    /\ UNCHANGED <<treeVars, step, path, built, text, parsed, compared>>

\* this.joinedWith(other)
JoinedWith(this, other) ==
    /\ applied.op = "none"
    /\ applied' = Applied("joinedWith", this, other, 0, joinedWith(this, other), FALSE)
    /\ UNCHANGED <<treeVars, step, path, built, text, parsed, compared>>

\* relative.joinedWith(other)
RelativeJoinedWith(this, other) ==
    /\ applied.op = "none"
    /\ applied' = Applied("relativeJoinedWith", this, other, 0,
                          relativeJoinedWith(this, other), FALSE)
    /\ UNCHANGED <<treeVars, step, path, built, text, parsed, compared>>

\* The depths the caller truncates at
Depths == (0 - 1)..(MaxDepth + 1)

\* this.truncatedAt(depth)
TruncatedAt(this, depth) ==
    /\ applied.op = "none"
    /\ applied' = Applied("truncatedAt", this, <<>>, depth, truncatedAt(this, depth), FALSE)
    /\ UNCHANGED <<treeVars, step, path, built, text, parsed, compared>>

\* this.getParent()
GetParent(this) ==
    /\ applied.op = "none"
    /\ applied' = Applied("getParent", this, <<>>, 0, getParent(this), FALSE)
    /\ UNCHANGED <<treeVars, step, path, built, text, parsed, compared>>

\* The caller makes one call
AlgebraNext ==
    \/ applied.op = "none" /\ \E this \in AlgebraPointers, depth \in Depths :
                                  TruncatedAt(this, depth)
    \/ applied.op = "none" /\ \E this \in AlgebraPointers : GetParent(this)
    \/ applied.op = "none" /\ \E this \in AlgebraPointers, other \in AlgebraPointers :
                                  JoinedWith(this, other)
    \/ applied.op = "none" /\ \E relative \in ResolvePointers, pointer \in AlgebraPointers :
                                  Resolve(relative, pointer)
    \/ applied.op = "none" /\ \E relative \in ResolvePointers, other \in AlgebraPointers :
                                  RelativeJoinedWith(relative, other)

AlgebraSpec == AlgebraInit /\ [][AlgebraNext]_vars

(***************************************************************************)
(* The program: a caller that compares the pointers it holds               *)
(***************************************************************************)
\* The pointers the caller holds
EqualityPointers ==
    {Instance("JsonPointer", p) :
        p \in {<<>>, <<Num(0)>>, <<Num(1)>>, <<Str(<<"0", "#">>)>>, <<Str(<<"a">>)>>,
               <<Num(0), Str(<<"a">>)>>, <<Str(<<"a">>), Num(0)>>,
               <<Num(MaxSafeInteger + 1)>>}}
    \cup
    {Instance("JsonRelativePointer", p) :
        p \in {<<Num(0)>>, <<Num(1)>>, <<Str(<<"0", "#">>)>>, <<Str(<<"0", "+", "1">>)>>,
               <<Num(0), Str(<<"a">>)>>, <<Str(<<"0", "#">>), Str(<<"a">>)>>}}

\* The values the caller hands to equals: the pointers, and objects of
\* another class
EqualityValues ==
    EqualityPointers \cup {Instance("Object", <<>>), Instance("Object", <<Num(0)>>)}

EqualityInit ==
    /\ root = Null
    /\ pc = "idle"
    /\ call = NoCall
    /\ before = root
    /\ outcome = Return(Undefined)
    /\ entries = <<>>
    /\ step = "none"
    /\ path = <<>>
    /\ built = NoPointer
    /\ text = <<>>
    /\ parsed = NoPointer
    /\ applied = NotApplied
    /\ \E a \in EqualityPointers, b \in EqualityPointers, c \in EqualityValues :
           compared = Compared(a, b, c, <<>>, <<>>)

\* The calls of equals the caller makes, in order: a.equals(a),
\* a.equals(b), b.equals(a), b.equals(c), a.equals(c)
Comparisons(held) ==
    <<<<held.a, held.a>>, <<held.a, held.b>>, <<held.b, held.a>>, <<held.b, held.c>>,
      <<held.a, held.c>>>>

\* this.equals(other), the next call of the caller
Equals(this, other) ==
    /\ Len(compared.equal) < Len(Comparisons(compared))
    /\ <<this, other>> = Comparisons(compared)[Len(compared.equal) + 1]
    /\ compared' = [compared EXCEPT !.equal =
                        Append(@, IF this.class = "JsonPointer"
                                  THEN pointerEquals(this, other)
                                  ELSE relativeEquals(this, other))]
    /\ UNCHANGED <<treeVars, step, path, built, text, parsed, applied>>

\* this.toString(), which the caller calls on a and then on b once it has
\* compared
ToString(this) ==
    /\ Len(compared.equal) = Len(Comparisons(compared))
    /\ Len(compared.strings) < 2
    /\ this = IF Len(compared.strings) = 0 THEN compared.a ELSE compared.b
    /\ compared' = [compared EXCEPT !.strings =
                        Append(@, IF this.class = "JsonPointer"
                                  THEN Return(toString(this.segments))
                                  ELSE relativeToString(this.segments))]
    /\ UNCHANGED <<treeVars, step, path, built, text, parsed, applied>>

EqualityNext ==
    \/ \E this \in EqualityPointers, other \in EqualityValues : Equals(this, other)
    \/ \E this \in EqualityPointers : ToString(this)

EqualitySpec == EqualityInit /\ [][EqualityNext]_vars

(***************************************************************************)
(* The program: a caller that makes one call of set, get or has on a tree  *)
(* that may hold a property named '-'                                      *)
(***************************************************************************)
\* The initial trees, {"-": 1} and {"a": {"-": null}}
DashTrees ==
    InitialTrees \cup
        {Obj([k \in {<<"-">>} |-> Number(1)]),
         Obj([k \in {<<"a">>} |-> Obj([j \in {<<"-">>} |-> Null])])}

DashInit ==
    /\ root \in DashTrees
    /\ pc = "idle"
    /\ call = NoCall
    /\ before = root
    /\ outcome = Return(Undefined)
    /\ entries = <<>>
    /\ step = "none"
    /\ path = <<>>
    /\ built = NoPointer
    /\ text = <<>>
    /\ parsed = NoPointer
    /\ applied = NotApplied
    /\ compared = NotCompared

DashNext ==
    \/ pc = "idle" /\ \E pointer \in Pointers, value \in Values : Set(pointer, value)
    \/ pc = "idle" /\ \E pointer \in Pointers : Get(pointer)
    \/ pc = "idle" /\ \E pointer \in Pointers : Has(pointer)

DashSpec == DashInit /\ [][DashNext]_vars

(***************************************************************************)
(* The program: a caller that makes one call of set, on a pointer or on a  *)
(* relative pointer                                                        *)
(***************************************************************************)
SetNext ==
    \/ pc = "idle" /\ \E pointer \in Pointers, value \in Values : Set(pointer, value)
    \/ pc = "idle" /\ \E relative \in RelativePointers, pointer \in Pointers, value \in Values :
                          RelativeSet(relative, pointer, value)

SetSpec == RelativeInit /\ [][SetNext]_vars

(***************************************************************************)
(* The program: a caller that holds a JSON tree and makes one call, of any *)
(* operation of the two classes                                            *)
(***************************************************************************)
\* No call has been made
NoCallYet == pc = "idle" /\ step = "none" /\ applied.op = "none"

FrameNext ==
    \/ NoCallYet /\ \E pointer \in Pointers : Get(pointer)
    \/ NoCallYet /\ \E pointer \in Pointers : Has(pointer)
    \/ NoCallYet /\ \E pointer \in Pointers : Traverse(pointer)
    \/ NoCallYet /\ \E relative \in RelativePointers, pointer \in Pointers :
                         RelativeGet(relative, pointer)
    \/ NoCallYet /\ \E relative \in RelativePointers, pointer \in Pointers :
                         RelativeHas(relative, pointer)
    \/ NoCallYet /\ \E relative \in ResolvePointers, pointer \in Pointers :
                         Resolve(relative, pointer)
    \/ NoCallYet /\ \E segments \in Paths : BuildPointer(segments)
    \/ NoCallYet /\ \E string \in Texts : ParseString(string)
    \/ NoCallYet /\ \E this \in Pointers, depth \in Depths : TruncatedAt(this, depth)
    \/ NoCallYet /\ \E this \in Pointers : GetParent(this)
    \/ NoCallYet /\ \E this \in Pointers, other \in Pointers : JoinedWith(this, other)
    \/ NoCallYet /\ \E pointer \in Pointers, value \in Values : Set(pointer, value)
    \/ NoCallYet /\ \E pointer \in Pointers : Unset(pointer)

FrameSpec == RelativeInit /\ [][FrameNext]_vars

(***************************************************************************)
(* What the claims are stated with                                         *)
(***************************************************************************)
\* An array is dense when it has an element at exactly the indices
\* 0..length-1; a tree is dense when every array in it is.
RECURSIVE Dense(_)
Dense(value) ==
    /\ IsArray(value) => DOMAIN value.items = 0..(value.length - 1)
    /\ \A i \in DOMAIN value.items : Dense(value.items[i])
    /\ \A k \in DOMAIN value.props : Dense(value.props[k])

\* The location `location` holds a value in the tree: every segment but
\* the last leads to an array by an index it has or to an object by a key
\* it has, and so does the last.
RECURSIVE Resolves(_, _)
Resolves(tree, location) ==
    IF Len(location) = 0 THEN TRUE
    ELSE LET segment == location[1]
         IN  IF tree.kind = "array"
             THEN /\ segment.kind = "number"
                  /\ segment.n < tree.length
                  /\ segment.n \in DOMAIN tree.items
                  /\ Resolves(tree.items[segment.n], Tail(location))
             ELSE IF tree.kind = "object"
             THEN /\ segment.kind = "string"
                  /\ segment.s \in DOMAIN tree.props
                  /\ Resolves(tree.props[segment.s], Tail(location))
             ELSE FALSE

\* The value a location that resolves holds
RECURSIVE ValueAt(_, _)
ValueAt(tree, location) ==
    IF Len(location) = 0 THEN tree
    ELSE IF tree.kind = "array"
    THEN ValueAt(tree.items[location[1].n], Tail(location))
    ELSE ValueAt(tree.props[location[1].s], Tail(location))

\* The first n segments of a pointer, and its last segment
Prefix(segments, n) == SubSeq(segments, 1, n)

Last(segments) == segments[Len(segments)]

\* The call that has ended
Ended(op) == pc = "returned" /\ call.op = op

Returned == outcome.status = "return"

Threw(kind, msg) ==
    outcome.status = "throw" /\ outcome.err.kind = kind /\ outcome.err.msg = msg

\* The location of the parent of the last call's pointer, which is not root
ParentLocation == Prefix(call.pointer, Len(call.pointer) - 1)

(***************************************************************************)
(* C1                                                                      *)
(***************************************************************************)
\* C1: the initial trees are dense and, after any sequence of set and unset
\* calls with any pointers and values, failed or not, every array of the
\* tree is dense.
ArraysStayDense == Dense(root)

\* A set beyond the end of an array was refused.
ArraysStayDenseWitness ==
    /\ Ended("set")
    /\ Threw("InvalidReferenceError", "Index is out of bounds at")
    /\ Resolves(before, ParentLocation)
    /\ IsArray(ValueAt(before, ParentLocation))
    /\ Last(call.pointer).kind = "number"
    /\ Last(call.pointer).n > ValueAt(before, ParentLocation).length

(***************************************************************************)
(* C2                                                                      *)
(***************************************************************************)
\* C2: for every pointer P that JsonPointer.from builds from a list of
\* well-formed segments, JsonPointer.parse(P.toString()) succeeds and
\* equals P.
RoundTrip ==
    step = "parse" => parsed.ok /\ equals(parsed.segments, built.segments)

(***************************************************************************)
(* C3                                                                      *)
(***************************************************************************)
\* The last call was a set whose parent location held an array
SetOnArray ==
    /\ Ended("set")
    /\ Len(call.pointer) > 0
    /\ Resolves(before, ParentLocation)
    /\ IsArray(ValueAt(before, ParentLocation))

\* The array `new` is the array `old` with `value` added at its end
Appended(old, new, value) ==
    /\ new.length = old.length + 1
    /\ DOMAIN new.items = (DOMAIN old.items) \cup {old.length}
    /\ new.items[old.length] = value
    /\ \A j \in DOMAIN old.items : new.items[j] = old.items[j]

\* The array `new` is the array `old` with `value` in place of element i
Overwritten(old, new, i, value) ==
    /\ new.length = old.length
    /\ DOMAIN new.items = DOMAIN old.items
    /\ new.items[i] = value
    /\ \A j \in (DOMAIN old.items) \ {i} : new.items[j] = old.items[j]

\* C3: a set whose parent location is an array of length n appends the
\* value when the last segment is '-' or the integer n, overwrites element
\* i when it is an integer i < n, and fails with the index-out-of-bounds
\* reference error, the array unchanged, when it is an integer i > n.
SetOnArrayParent ==
    SetOnArray =>
        LET segment == Last(call.pointer)
            old == ValueAt(before, ParentLocation)
            new == ValueAt(root, ParentLocation)
        IN  /\ Resolves(root, ParentLocation)
            /\ IsArray(new)
            /\ (segment = Dash \/ (segment.kind = "number" /\ segment.n = old.length)) =>
                   Returned /\ Appended(old, new, call.value)
            /\ (segment.kind = "number" /\ segment.n < old.length) =>
                   Returned /\ Overwritten(old, new, segment.n, call.value)
            /\ (segment.kind = "number" /\ segment.n > old.length) =>
                   /\ Threw("InvalidReferenceError", "Index is out of bounds at")
                   /\ new = old

\* A value was appended to an array that was not empty by a set at the
\* index that is the length of the array.
SetOnArrayParentWitness ==
    /\ SetOnArray
    /\ Returned
    /\ Last(call.pointer).kind = "number"
    /\ ValueAt(before, ParentLocation).length > 0
    /\ Last(call.pointer).n = ValueAt(before, ParentLocation).length
    /\ ValueAt(root, ParentLocation).length = Last(call.pointer).n + 1

(***************************************************************************)
(* C4                                                                      *)
(***************************************************************************)
\* The location of the last call holds an array element or an object key
\* that an unset can remove.
TargetPresent ==
    /\ Resolves(before, ParentLocation)
    /\ LET parent == ValueAt(before, ParentLocation)
           segment == Last(call.pointer)
       IN  \/ IsArray(parent) /\ segment.kind = "number" /\ segment.n < parent.length
           \/ parent.kind = "object" /\ segment.kind = "string"
                                     /\ segment.s \in DOMAIN parent.props

\* The tree differs from the tree before the call at most in the value at
\* the parent location.
OnlyParentChanged ==
    /\ Resolves(root, ParentLocation)
    /\ ReplaceAt(root, ParentLocation, ValueAt(before, ParentLocation)) = before

\* C4: an unset with a pointer that is not root never throws: it removes
\* the array element or object key it targets, and nothing else, and
\* returns the value that was there; or, when there is no such element or
\* key, it returns undefined and the tree is unchanged.
UnsetNeverThrows ==
    (Ended("unset") /\ Len(call.pointer) > 0) =>
        /\ Returned
        /\ IF TargetPresent
           THEN LET old == ValueAt(before, ParentLocation)
                    new == ValueAt(root, ParentLocation)
                    segment == Last(call.pointer)
                IN  /\ OnlyParentChanged
                    /\ new.kind = old.kind
                    /\ IF IsArray(old)
                       THEN /\ outcome.value = old.items[segment.n]
                            /\ new.length = old.length - 1
                       ELSE /\ outcome.value = old.props[segment.s]
                            /\ DOMAIN new.props = (DOMAIN old.props) \ {segment.s}
                            /\ \A k \in DOMAIN new.props : new.props[k] = old.props[k]
           ELSE outcome.value = Undefined /\ root = before

\* An unset whose parent location does not resolve returned undefined.
UnsetNeverThrowsWitness ==
    /\ Ended("unset")
    /\ Len(call.pointer) > 1
    /\ ~Resolves(before, ParentLocation)
    /\ outcome = Return(Undefined)
    /\ root = before

(***************************************************************************)
(* C5                                                                      *)
(***************************************************************************)
\* C5: an unset with last segment the integer i on an array parent of
\* length n > i returns the old element i; the array then has length n-1,
\* its elements below i are unchanged and each index j >= i holds the
\* former element j+1.
UnsetShiftsDown ==
    (Ended("unset") /\ Len(call.pointer) > 0 /\ TargetPresent
        /\ IsArray(ValueAt(before, ParentLocation))) =>
        LET old == ValueAt(before, ParentLocation)
            new == ValueAt(root, ParentLocation)
            i == Last(call.pointer).n
        IN  /\ outcome = Return(old.items[i])
            /\ Resolves(root, ParentLocation)
            /\ IsArray(new)
            /\ new.length = old.length - 1
            /\ DOMAIN new.items = 0..(old.length - 2)
            /\ \A j \in DOMAIN new.items :
                   new.items[j] = IF j < i THEN old.items[j] ELSE old.items[j + 1]

\* The first of two elements was removed and the second took its place.
UnsetShiftsDownWitness ==
    /\ Ended("unset")
    /\ Len(call.pointer) > 0
    /\ TargetPresent
    /\ IsArray(ValueAt(before, ParentLocation))
    /\ ValueAt(before, ParentLocation).length > 1
    /\ Last(call.pointer).n = 0
    /\ ValueAt(root, ParentLocation).items[0] = ValueAt(before, ParentLocation).items[1]
    /\ ValueAt(before, ParentLocation).items[0] # ValueAt(before, ParentLocation).items[1]

(***************************************************************************)
(* C9                                                                      *)
(***************************************************************************)
\* C9: set and unset with the root pointer always fail with the error that
\* refuses to change the root, and the tree is unchanged.
RootIsNotMutable ==
    /\ (Ended("set") /\ Len(call.pointer) = 0) =>
           /\ Threw("JsonPointerError", "Cannot set root value")
           /\ root = before
    /\ (Ended("unset") /\ Len(call.pointer) = 0) =>
           /\ Threw("InvalidReferenceError", "Cannot unset the root value")
           /\ root = before

\* A set with the root pointer has failed on a tree that is an array.
RootIsNotMutableWitness ==
    /\ Ended("set")
    /\ Len(call.pointer) = 0
    /\ IsArray(before)
    /\ outcome.status = "throw"

(***************************************************************************)
(* C7                                                                      *)
(***************************************************************************)
\* The cases in which a traversal cannot go from `current` by `segment`
TraverseFails(current, segment) ==
    \/ ~IsStructure(current)
    \/ /\ IsArray(current)
       /\ \/ segment = Dash
          \/ segment.kind # "number"
          \/ segment.n >= current.length
    \/ /\ current.kind = "object"
       /\ \/ segment.kind = "number"
          \/ segment.s \notin DOMAIN current.props

\* The reference error of each of these cases, naming the pointer `at`
TraverseFailure(current, segment, at) ==
    IF ~IsStructure(current)
    THEN Error("InvalidReferenceError", "Cannot read value at", <<>>, at)
    ELSE IF IsArray(current) /\ segment = Dash
    THEN Error("InvalidReferenceError", "Index is out of bounds at",
               NumberToString(current.length), at)
    ELSE IF IsArray(current) /\ segment.kind # "number"
    THEN Error("InvalidReferenceError", "Expected an object, got an array", <<>>, at)
    ELSE IF IsArray(current)
    THEN Error("InvalidReferenceError", "Index is out of bounds at",
               NumberToString(segment.n), at)
    ELSE IF segment.kind = "number"
    THEN Error("InvalidReferenceError", "Expected array, got object", <<>>, at)
    ELSE Error("InvalidReferenceError", "Property does not exist at", segment.s, at)

\* C7: a traversal fails at the first depth i at which the value reached
\* and the next segment are in one of the failure cases, with the reference
\* error of that case naming the pointer truncated to depth i, after the
\* entries of the depths 0..i were yielded; it fails in no other case.
TraverseFailsAtFirstBadSegment ==
    Ended("traverse") =>
        LET P == call.pointer
            i == Len(entries) - 1
        IN  /\ i >= 0
            /\ i <= Len(P)
            /\ \A k \in 0..i :
                   /\ Resolves(before, Prefix(P, k))
                   /\ entries[k + 1].value = ValueAt(before, Prefix(P, k))
            /\ \A k \in 0..(i - 1) : ~TraverseFails(entries[k + 1].value, P[k + 1])
            /\ IF i < Len(P)
               THEN /\ TraverseFails(entries[i + 1].value, P[i + 1])
                    /\ outcome = Throw(TraverseFailure(entries[i + 1].value, P[i + 1],
                                                       toString(Prefix(P, i))))
               ELSE Returned

\* A traversal has failed at its last segment, the '-' of an array that is
\* not empty, after the entries of all the segments before it.
TraverseFailsAtFirstBadSegmentWitness ==
    /\ Ended("traverse")
    /\ Len(call.pointer) = MaxDepth
    /\ Len(entries) = MaxDepth
    /\ call.pointer[MaxDepth] = Dash
    /\ IsArray(entries[MaxDepth].value)
    /\ entries[MaxDepth].value.length > 0
    /\ outcome.status = "throw"
    /\ outcome.err.arg = NumberToString(entries[MaxDepth].value.length)

(***************************************************************************)
(* C8                                                                      *)
(***************************************************************************)
\* C8: for a pointer P of depth d that resolves, traverse yields d+1
\* entries and finishes: the first is (null, root) and entry k is segment
\* k-1 of P with the value P.truncatedAt(k).get(root); get returns the
\* value of the last entry; each traversal starts from the root of the
\* tree as it is when the call is made.
TraverseYieldsEachDepth ==
    /\ (Ended("traverse") /\ Resolves(before, call.pointer)) =>
           LET P == call.pointer
           IN  /\ Returned
               /\ Len(entries) = getDepth(P) + 1
               /\ entries[1] = Entry(NullSegment, before)
               /\ \A k \in 1..getDepth(P) :
                      /\ entries[k + 1].segment = P[k]
                      /\ entries[k + 1].value = ValueAt(before, Prefix(P, k))
                      /\ get(truncatedAt(P, k).segments, before)
                             = Return(entries[k + 1].value)
    /\ (Ended("get") /\ Resolves(before, call.pointer)) =>
           /\ outcome = Return(ValueAt(before, call.pointer))
           /\ LET iteration == traverse(call.pointer, before)
              IN  outcome.value = iteration.entries[Len(iteration.entries)].value

\* A traversal of the deepest pointers has finished, with one entry more
\* than the pointer has segments, in a tree that a call has changed.
TraverseYieldsEachDepthWitness ==
    /\ Ended("traverse")
    /\ Returned
    /\ Len(call.pointer) = MaxDepth
    /\ Len(entries) = MaxDepth + 1
    /\ before \notin InitialTrees

(***************************************************************************)
(* C6                                                                      *)
(***************************************************************************)
\* C6: has never throws, for a pointer and for a relative pointer, and it
\* returns true exactly when get with the same arguments returns.
HasIffGetReturns ==
    /\ Ended("has") =>
           outcome = Return(Boolean(get(call.pointer, before).status = "return"))
    /\ Ended("relativeHas") =>
           outcome = Return(Boolean(relativeGet(call.relative, before,
                                                call.pointer).status = "return"))

\* has returned false for a relative pointer that ascends beyond the root,
\* from a base pointer that resolves.
HasIffGetReturnsWitness ==
    /\ Ended("relativeHas")
    /\ outcome = Return(Boolean(FALSE))
    /\ Resolves(before, call.pointer)
    /\ relativeGet(call.relative, before, call.pointer).status = "throw"
    /\ relativeGet(call.relative, before, call.pointer).err.kind = "JsonPointerError"

(***************************************************************************)
(* C10                                                                     *)
(***************************************************************************)
\* The last call was a get on a relative pointer whose origin token is a
\* bare integer: no key marker and no offset.
PlainRelativeGet == Ended("relativeGet") /\ call.relative[1].kind = "number"

\* C10: get on such a relative pointer with parent index N, from a base
\* pointer of depth d: when the base pointer does not resolve, the error of
\* its traversal is thrown; when it resolves and N > d, the error is 'The
\* relative pointer is out of bounds'; otherwise the result is that of get
\* of the remainder pointer on the value at the base pointer truncated at
\* d - N.
RelativeGetAscends ==
    PlainRelativeGet =>
        LET N == call.relative[1].n
            base == call.pointer
            d == getDepth(base)
            remainder == Tail(call.relative)
        IN  IF ~Resolves(before, base)
            THEN outcome = Throw(traverse(base, before).err)
            ELSE IF N > d
            THEN outcome.status = "throw"
                 /\ outcome.err.msg = "The relative pointer is out of bounds"
            ELSE outcome = get(remainder, ValueAt(before, truncatedAt(base, d - N).segments))

\* A get has ascended one level from a base pointer of depth two and then
\* descended by its remainder to a value.
RelativeGetAscendsWitness ==
    /\ PlainRelativeGet
    /\ call.relative[1].n = 1
    /\ Len(call.relative) > 1
    /\ Len(call.pointer) > 1
    /\ Resolves(before, call.pointer)
    /\ Returned
    /\ outcome.value = ValueAt(before, Prefix(call.pointer, Len(call.pointer) - 1)
                                           \o Tail(call.relative))

\* C11: relative.resolve(base) fails when the relative pointer is a key
\* pointer, when its offset is not zero or when its parent index N exceeds
\* the depth d of base; otherwise it returns the pointer made of the first
\* d - N segments of base followed by the remainder segments, which equals
\* base when N = 0 and the remainder is empty, and is the remainder when
\* N = d.
ResolveTruncatesBase ==
    applied.op = "resolve" =>
        LET relative == applied.this
            base == applied.other
            N == getParentIndex(relative)
            d == Len(base)
            remainder == Tail(relative)
        IN  IF isKeyPointer(relative) \/ getParentIndexOffset(relative) # 0 \/ N > d
            THEN ~applied.result.ok /\ applied.result.err # NoError
            ELSE /\ applied.result.ok
                 /\ applied.result.segments = SubSeq(base, 1, d - N) \o remainder
                 /\ (N = 0 /\ remainder = <<>> => equals(applied.result.segments, base))
                 /\ (N = d => applied.result.segments = remainder)

(***************************************************************************)
(* C12                                                                     *)
(***************************************************************************)
\* The last call was a get, set or unset on a relative pointer with an
\* offset, from a base pointer that resolves and is deep enough for the
\* ascent.
OffsetCall ==
    /\ pc = "returned"
    /\ call.op \in {"relativeGet", "relativeSet", "relativeUnset"}
    /\ getParentIndexOffset(call.relative) # 0
    /\ Resolves(before, call.pointer)
    /\ getParentIndex(call.relative) <= Len(call.pointer)

\* The last call was a set or unset on a key pointer
KeyWrite == call.op \in {"relativeSet", "relativeUnset"} /\ isKeyPointer(call.relative)

\* Two outcomes are the same return or the same kind of error
SameOutcome(this, that) ==
    /\ this.status = that.status
    /\ this.value = that.value
    /\ this.err.kind = that.err.kind
    /\ this.err.msg = that.err.msg

\* The last call did what the same operation does at the location `target`
\* followed by the remainder of the relative pointer
ActedAt(target) ==
    LET location == target \o Tail(call.relative)
    IN  IF call.op = "relativeGet"
        THEN /\ root = before
             /\ IF isKeyPointer(call.relative)
                THEN outcome = ReturnKey(Last(target))
                ELSE SameOutcome(outcome, get(location, before))
        ELSE IF call.op = "relativeSet"
        THEN LET expected == set(location, before, call.value)
             IN  /\ root = expected.root
                 /\ SameOutcome(outcome, IF expected.err = NoError THEN Return(Undefined)
                                         ELSE Throw(expected.err))
        ELSE LET expected == unset(location, before)
             IN  root = expected.root /\ SameOutcome(outcome, expected.out)

\* The rule of the offset: the entry reached by the ascent must be the
\* element i of an array A, i + k must be an index of A, and the call then
\* acts at element i + k of A.
OffsetRule ==
    LET base == call.pointer
        reached == Len(base) - getParentIndex(call.relative)
        k == getParentIndexOffset(call.relative)
    IN  IF \/ reached = 0
           \/ base[reached].kind # "number"
           \/ ~IsArray(ValueAt(before, Prefix(base, reached - 1)))
        THEN /\ Threw("InvalidReferenceError",
                      "An offset can only be applied to array elements")
             /\ root = before
        ELSE LET A == ValueAt(before, Prefix(base, reached - 1))
                 i == base[reached].n
             IN  IF i + k < 0 \/ i + k >= A.length
                 THEN /\ Threw("InvalidReferenceError", "The element index is out of bounds")
                      /\ root = before
                 ELSE ActedAt(Prefix(base, reached - 1) \o <<Num(i + k)>>)

\* C12 as stated: get, set and unset on any relative pointer with a
\* non-zero offset k follow the rule of the offset: they fail with 'An
\* offset can only be applied to array elements' unless the entry reached
\* by the ascent is the element i of an array A (the root entry is none),
\* with 'The element index is out of bounds' unless 0 <= i + k < length(A),
\* and otherwise act at element i + k of A.
OffsetSelectsSibling == OffsetCall => OffsetRule

\* C12 as amended: get on any relative pointer with a non-zero offset, and
\* set and unset on one that is not a key pointer, follow the rule of the
\* offset; set and unset on a key pointer fail with 'Cannot write to a key'
\* whatever the offset and leave the tree as it was.
OffsetSelectsSiblingUnlessKeyWrite ==
    /\ OffsetCall /\ ~KeyWrite => OffsetRule
    /\ pc = "returned" /\ KeyWrite =>
            Threw("JsonPointerError", "Cannot write to a key") /\ root = before

\* A set on 0+1 from the first element of an array has replaced the
\* second element
OffsetSelectsSiblingUnlessKeyWriteWitness ==
    /\ OffsetCall
    /\ call.op = "relativeSet"
    /\ call.relative = <<Str(<<"0", "+", "1">>)>>
    /\ Len(call.pointer) > 0
    /\ Last(call.pointer) = Num(0)
    /\ Returned
    /\ root # before
    /\ ValueAt(root, Prefix(call.pointer, Len(call.pointer) - 1) \o <<Num(1)>>) = call.value

(***************************************************************************)
(* C13                                                                     *)
(***************************************************************************)
\* The last call was a get on a key pointer, from a base pointer that
\* resolves and is deep enough for the ascent.
KeyGet ==
    /\ Ended("relativeGet")
    /\ isKeyPointer(call.relative)
    /\ Resolves(before, call.pointer)
    /\ getParentIndex(call.relative) <= Len(call.pointer)

\* What get on a key pointer returns when the ascent ends below the root:
\* without offset the segment of the entry reached, and with offset k on
\* the element i of an array with an element i + k, the index i + k.
KeyGetReturnsKey ==
    LET base == call.pointer
        reached == Len(base) - getParentIndex(call.relative)
        k == getParentIndexOffset(call.relative)
    IN  reached > 0 =>
            IF k = 0
            THEN outcome = (IF base[reached].kind = "number"
                            THEN Return(Number(base[reached].n))
                            ELSE Return(String(base[reached].s)))
            ELSE (/\ base[reached].kind = "number"
                  /\ base[reached].n + k >= 0
                  /\ base[reached].n + k < ValueAt(before, Prefix(base, reached - 1)).length)
                     => outcome = Return(Number(base[reached].n + k))

\* C13 as stated: get on a key pointer returns the segment of the target
\* entry, not its value (with offset k on the array element i, the index
\* i + k), and fails with 'The root value has no key' exactly when the
\* ascent ends at the root entry.
KeyGetReturnsSegment ==
    KeyGet =>
        /\ KeyGetReturnsKey
        /\ Threw("InvalidReferenceError", "The root value has no key")
                <=> getParentIndex(call.relative) = Len(call.pointer)

\* C13 as amended: get on a key pointer returns the segment of the target
\* entry, not its value (with offset k on the array element i, the index
\* i + k); it fails with 'The root value has no key' exactly when the
\* pointer has no offset and the ascent ends at the root entry, and with
\* 'An offset can only be applied to array elements' when it has an offset
\* and the ascent ends at the root entry.
KeyGetReturnsSegmentOrOffsetError ==
    KeyGet =>
        /\ KeyGetReturnsKey
        /\ Threw("InvalidReferenceError", "The root value has no key")
                <=> (/\ getParentIndex(call.relative) = Len(call.pointer)
                     /\ getParentIndexOffset(call.relative) = 0)
        /\ (/\ getParentIndex(call.relative) = Len(call.pointer)
            /\ getParentIndexOffset(call.relative) # 0)
                => Threw("InvalidReferenceError",
                         "An offset can only be applied to array elements")

\* A get on 0+1# from the first element of an array has returned the
\* index 1, which is not the value of that element
KeyGetReturnsSegmentOrOffsetErrorWitness ==
    /\ KeyGet
    /\ call.relative = <<Str(<<"0", "+", "1", "#">>)>>
    /\ Len(call.pointer) > 0
    /\ Last(call.pointer) = Num(0)
    /\ outcome = Return(Number(1))
    /\ ValueAt(before, Prefix(call.pointer, Len(call.pointer) - 1) \o <<Num(1)>>) # Number(1)

(***************************************************************************)
(* C14                                                                     *)
(***************************************************************************)
\* Every integer segment is a safe non-negative integer
SafeSegments(segments) ==
    \A i \in 1..Len(segments) :
        segments[i].kind = "number" => segments[i].n >= 0 /\ segments[i].n <= MaxSafeInteger

\* C14: every pointer a construction returns, from a list of segments or
\* from a string, has only integer segments that are safe non-negative
\* integers: an input that gives any other integer segment, an all-digit
\* piece of a parsed string included, fails with a syntax error.
IntegerSegmentsAreSafe ==
    /\ step \in {"from", "relativeFrom"} =>
            IF built.ok THEN SafeSegments(built.segments)
            ELSE built.err.kind = "InvalidSyntaxError"
    /\ step \in {"parse", "relativeParse"} =>
            IF parsed.ok THEN SafeSegments(parsed.segments)
            ELSE parsed.err.kind = "InvalidSyntaxError"

(***************************************************************************)
(* C15                                                                     *)
(***************************************************************************)
\* The pieces of a string between its '/' characters
RECURSIVE PiecesOf(_)
PiecesOf(string) ==
    IF \A i \in 1..Len(string) : string[i] # "/"
    THEN <<string>>
    ELSE LET cut == CHOOSE i \in 1..Len(string) :
                        string[i] = "/" /\ \A j \in 1..(i - 1) : string[j] # "/"
         IN  <<SubSeq(string, 1, cut - 1)>> \o PiecesOf(SubSeq(string, cut + 1, Len(string)))

\* A piece read from left to right, '~1' standing for '/' and '~0' for '~'
RECURSIVE Decoded(_)
Decoded(piece) ==
    IF Len(piece) = 0 THEN <<>>
    ELSE IF Len(piece) > 1 /\ piece[1] = "~" /\ piece[2] = "1"
    THEN <<"/">> \o Decoded(SubSeq(piece, 3, Len(piece)))
    ELSE IF Len(piece) > 1 /\ piece[1] = "~" /\ piece[2] = "0"
    THEN <<"~">> \o Decoded(SubSeq(piece, 3, Len(piece)))
    ELSE <<piece[1]>> \o Decoded(Tail(piece))

\* The segment a piece stands for: the integer it is the numeral of when it
\* is made of decimal digits only, the decoded string otherwise
SegmentOf(piece) ==
    IF AllDigits(piece) THEN Num(DigitsValue(piece)) ELSE Str(Decoded(piece))

\* The string is not a JSON pointer: it is not empty and does not start
\* with '/', or has a '~' that neither '0' nor '1' follows
Malformed(string) ==
    /\ Len(string) > 0
    /\ \/ string[1] # "/"
       \/ \E i \in 1..Len(string) :
              string[i] = "~" /\ (i = Len(string) \/ string[i + 1] \notin {"0", "1"})

\* C15: JsonPointer.parse gives the root pointer for the empty string,
\* fails with a syntax error for a non-empty string without a leading '/'
\* or with a '~' that neither '0' nor '1' follows, and for any other
\* string returns the segments of its pieces after the leading '/', each
\* decoded ('~1' to '/', then '~0' to '~', so that '~01' gives '~1'), an
\* all-digit piece giving the integer with that value.
ParseDecodesPieces ==
    step = "parse" =>
        IF Len(text) = 0
        THEN parsed = Built(<<>>)
        ELSE IF Malformed(text)
        THEN ~parsed.ok /\ parsed.err.kind = "InvalidSyntaxError"
        ELSE /\ parsed.ok
             /\ LET pieces == PiecesOf(Tail(text))
                IN  /\ Len(parsed.segments) = Len(pieces)
                    /\ \A i \in 1..Len(pieces) : parsed.segments[i] = SegmentOf(pieces[i])

(***************************************************************************)
(* C16                                                                     *)
(***************************************************************************)
\* C16: for all pointers P and Q, P.joinedWith(Q) returns a pointer whose
\* segments are those of P followed by those of Q, so that its depth is
\* the sum of the depths and joining is associative; it is P when Q is
\* root and equals Q when P is root; P and Q are as they were.
JoinConcatenates ==
    applied.op = "joinedWith" =>
        LET P == applied.this
            Q == applied.other
        IN  /\ applied.result.ok
            /\ applied.result.segments = P \o Q
            /\ getDepth(applied.result.segments) = getDepth(P) + getDepth(Q)
            /\ (isRoot(Q) => applied.result.segments = P)
            /\ (isRoot(P) => equals(applied.result.segments, Q))

(***************************************************************************)
(* C17                                                                     *)
(***************************************************************************)
\* C17: for a pointer P of depth d, truncatedAt(k) returns the pointer made
\* of the first k segments of P when 0 <= k <= d, which equals P for k = d
\* and is root for k = 0, and fails with a depth-out-of-bounds error for
\* k < 0 and for k > d; getParent returns what truncatedAt(d - 1) returns
\* when d > 0 and fails on the root pointer.
TruncateKeepsPrefix ==
    /\ applied.op = "truncatedAt" =>
            LET P == applied.this
                k == applied.depth
            IN  IF 0 <= k /\ k <= getDepth(P)
                THEN /\ applied.result.ok
                     /\ applied.result.segments = Prefix(P, k)
                     /\ (k = getDepth(P) => equals(applied.result.segments, P))
                     /\ (k = 0 => isRoot(applied.result.segments))
                ELSE /\ ~applied.result.ok
                     /\ applied.result.err.kind = "JsonPointerError"
                     /\ applied.result.err.msg = "Depth is out of bounds"
    /\ applied.op = "getParent" =>
            LET P == applied.this
            IN  IF getDepth(P) > 0
                THEN /\ applied.result.ok
                     /\ applied.result = truncatedAt(P, getDepth(P) - 1)
                     /\ applied.result.segments = Prefix(P, getDepth(P) - 1)
                ELSE ~applied.result.ok /\ applied.result.err.kind = "JsonPointerError"

\* A pointer of depth 2 truncated at depth 2 has given a pointer equal to
\* it
TruncateKeepsPrefixWitness ==
    /\ applied.op = "truncatedAt"
    /\ getDepth(applied.this) = 2
    /\ applied.depth = 2
    /\ applied.result.ok
    /\ equals(applied.result.segments, applied.this)

(***************************************************************************)
(* C18                                                                     *)
(***************************************************************************)
\* A token of the origin grammar: digits, then optionally a sign and
\* digits, then optionally '#'
IsOriginToken(token) ==
    \E digits \in 1..Len(token), hash \in {0, 1} :
        /\ AllDigits(SubSeq(token, 1, digits))
        /\ hash = 1 => Len(token) > digits /\ token[Len(token)] = "#"
        /\ LET offset == SubSeq(token, digits + 1, Len(token) - hash)
           IN  offset = <<>> \/ (offset[1] \in {"+", "-"} /\ AllDigits(Tail(offset)))

\* A string that begins with an origin token followed by its end or by
\* '/', and in which '0' or '1' follows every '~'
FitsRelativeGrammar(string) ==
    /\ \E n \in 1..Len(string) :
           IsOriginToken(SubSeq(string, 1, n)) /\ (n = Len(string) \/ string[n + 1] = "/")
    /\ \A i \in 1..Len(string) :
           string[i] = "~" => i < Len(string) /\ string[i + 1] \in {"0", "1"}

\* A list that is not empty, whose first element is written as an origin
\* token and whose numeric elements are safe non-negative integers
FitsRelativeList(list) ==
    /\ Len(list) > 0
    /\ IsOriginToken(SegmentString(list[1]))
    /\ \A i \in 1..Len(list) :
           list[i].kind = "number" => list[i].n >= 0 /\ list[i].n <= MaxSafeInteger

\* A numeral of an integer above the safe range
UnsafeNumeral(string) == AllDigits(string) /\ DigitsValue(string) > MaxSafeInteger

\* What holds of every construction of a relative pointer: an empty list
\* fails with its own syntax error, and a pointer has a segment
RelativeHasOrigin ==
    /\ step = "relativeFrom" /\ path = <<>> =>
            /\ ~built.ok
            /\ built.err.kind = "InvalidSyntaxError"
            /\ built.err.msg = "A relative pointer must have at least one segment"
    /\ step = "relativeFrom" /\ path # <<>> /\ ~built.ok =>
            /\ built.err.kind = "InvalidSyntaxError"
            /\ built.err.msg # "A relative pointer must have at least one segment"
    /\ step = "relativeFrom" /\ built.ok => Len(built.segments) >= 1
    /\ step = "relativeParse" /\ parsed.ok => Len(parsed.segments) >= 1

\* C18 as stated: JsonRelativePointer.parse(s) succeeds exactly when s
\* begins with an origin token followed by the end of the string or '/'
\* and has no invalid escape; from(list) succeeds exactly when the list is
\* not empty, its first element is written as an origin token and its
\* numeric elements are safe non-negative integers; from of the empty list
\* fails with the 'must have at least one segment' syntax error; a
\* constructed relative pointer has at least one segment.
RelativeAcceptsGrammar ==
    /\ step = "relativeParse" => (parsed.ok <=> FitsRelativeGrammar(text))
    /\ step = "relativeFrom" => (built.ok <=> FitsRelativeList(path))
    /\ RelativeHasOrigin

\* C18 as amended: as stated, for the strings none of whose pieces between
\* '/' is the numeral of an integer above the safe range and for the lists
\* none of whose string elements is one; the other strings and lists fail
\* with a syntax error.
RelativeAcceptsSafeGrammar ==
    /\ step = "relativeParse" =>
            (parsed.ok <=> /\ FitsRelativeGrammar(text)
                           /\ \A i \in 1..Len(PiecesOf(text)) :
                                  ~UnsafeNumeral(PiecesOf(text)[i]))
    /\ step = "relativeParse" /\ ~parsed.ok => parsed.err.kind = "InvalidSyntaxError"
    /\ step = "relativeFrom" =>
            (built.ok <=> /\ FitsRelativeList(path)
                          /\ \A i \in 1..Len(path) :
                                 path[i].kind = "string" => ~UnsafeNumeral(path[i].s))
    /\ RelativeHasOrigin

\* The string 1-1#/0 has been parsed into a pointer of two segments, and
\* the empty list has been refused
RelativeAcceptsSafeGrammarWitness ==
    \/ /\ step = "relativeParse"
       /\ text = <<"1", "-", "1", "#">>
       /\ parsed.ok
       /\ parsed.segments = <<Str(<<"1", "-", "1", "#">>)>>
    \/ /\ step = "relativeFrom"
       /\ path = <<>>
       /\ ~built.ok

(***************************************************************************)
(* C19                                                                     *)
(***************************************************************************)
\* Two values of the same class that hold as many segments, the same at
\* each position: integers of the same value, or strings of the same
\* characters
SameClassAndSegments(x, y) ==
    /\ x.class = y.class
    /\ Len(x.segments) = Len(y.segments)
    /\ \A i \in 1..Len(x.segments) :
           /\ x.segments[i].kind = y.segments[i].kind
           /\ x.segments[i].kind = "number" => x.segments[i].n = y.segments[i].n
           /\ x.segments[i].kind = "string" => x.segments[i].s = y.segments[i].s

\* The k-th call of equals returned true
Equal(k) == Len(compared.equal) >= k /\ compared.equal[k]

\* C19: equals returns true exactly when its argument is a pointer of the
\* class of the receiver with as many segments, pairwise identical (an
\* integer segment differs from every string segment); so a.equals(a) is
\* true, a.equals(b) and b.equals(a) agree, a.equals(b) and b.equals(c)
\* give a.equals(c), and two equal pointers have the same toString.
EqualsIsStructural ==
    /\ \A k \in 1..Len(compared.equal) :
           compared.equal[k] <=> SameClassAndSegments(Comparisons(compared)[k][1],
                                                      Comparisons(compared)[k][2])
    /\ Len(compared.equal) >= 1 => Equal(1)
    /\ Len(compared.equal) >= 3 => (Equal(2) <=> Equal(3))
    /\ Len(compared.equal) >= 5 /\ Equal(2) /\ Equal(4) => Equal(5)
    /\ Len(compared.strings) = 2 /\ Equal(2) =>
            /\ compared.strings[1].status = "return"
            /\ compared.strings[1] = compared.strings[2]

\* The caller has compared three equal pointers of two segments and has
\* their strings, or has compared a pointer and a relative pointer of the
\* same segments
EqualsIsStructuralWitness ==
    /\ Len(compared.strings) = 2
    /\ \/ Equal(2) /\ Equal(4) /\ Equal(5) /\ Len(compared.a.segments) = 2
       \/ /\ ~Equal(2)
          /\ compared.a.class # compared.b.class
          /\ compared.a.segments = compared.b.segments

(***************************************************************************)
(* C20                                                                     *)
(***************************************************************************)
\* The classes of the pointer errors: the base class and its two subclasses
PointerErrors == {"JsonPointerError", "InvalidSyntaxError", "InvalidReferenceError"}

\* The last call was a set whose pointer is not root, whose parent location
\* held an array when the final segment is a string other than '-', or an
\* object when the final segment is an integer or '-'
SetMismatch ==
    /\ Ended("set")
    /\ Len(call.pointer) > 0
    /\ Resolves(before, ParentLocation)
    /\ \/ /\ Last(call.pointer).kind = "number" \/ Last(call.pointer) = Dash
          /\ ValueAt(before, ParentLocation).kind = "object"
       \/ /\ Last(call.pointer).kind = "string"
          /\ Last(call.pointer) # Dash
          /\ ValueAt(before, ParentLocation).kind = "array"

\* C20: every error JsonPointer.set raises is a pointer error, and the
\* error it raises when the parent location holds an object for an integer
\* or '-' final segment, or an array for a string final segment, is a
\* reference error.
SetRaisesPointerErrors ==
    /\ Ended("set") /\ outcome.status = "throw" => outcome.err.kind \in PointerErrors
    /\ SetMismatch => outcome.status = "throw" /\ outcome.err.kind = "InvalidReferenceError"

(***************************************************************************)
(* C21                                                                     *)
(***************************************************************************)
\* An outcome that is a reference error thrown
IsReferenceError(result) ==
    result.status = "throw" /\ result.err.kind = "InvalidReferenceError"

\* C21: whenever JsonPointer.has or JsonRelativePointer.has returns false,
\* the get call with the same arguments fails with a reference error, not
\* with a generic pointer error or a syntax error.
HasSuppressesReferenceErrorsOnly ==
    /\ Ended("has") /\ outcome = Return(Boolean(FALSE)) =>
            IsReferenceError(get(call.pointer, before))
    /\ Ended("relativeHas") /\ outcome = Return(Boolean(FALSE)) =>
            IsReferenceError(relativeGet(call.relative, before, call.pointer))

(***************************************************************************)
(* C22                                                                     *)
(***************************************************************************)
\* The operations of the two classes that take the tree and are not set or
\* unset
Reads == {"get", "has", "traverse", "relativeGet", "relativeHas"}

\* A pointer-building operation has been called
HasBuilt == step # "none" \/ applied.op # "none"

\* C22: get, has and traverse of JsonPointer, get, has and resolve of
\* JsonRelativePointer and the pointer-building operations leave the tree
\* as it was, whether they return or throw; a tree that differs from what
\* it was before the call has been changed by set or unset.
ReadsLeaveTheTree ==
    /\ pc = "returned" /\ call.op \in Reads => root = before
    /\ HasBuilt => root = before
    /\ root # before => pc = "returned" /\ call.op \in {"set", "unset"}

\* A relative get has thrown on a tree that is an object, and the tree is
\* as it was
ReadsLeaveTheTreeWitness ==
    /\ Ended("relativeGet")
    /\ outcome.status = "throw"
    /\ IsStructure(root)
    /\ Len(call.pointer) > 0
    /\ root = before

(***************************************************************************)
(* C23                                                                     *)
(***************************************************************************)
\* The last call was a set whose pointer is not root and whose parent
\* location held an object or an array
SetOnStructure ==
    /\ Ended("set")
    /\ Len(call.pointer) > 0
    /\ Resolves(before, ParentLocation)
    /\ ValueAt(before, ParentLocation).kind \in {"object", "array"}

\* The last call failed with that message and the tree is as it was
FailedWith(msg) == outcome.status = "throw" /\ outcome.err.msg = msg /\ root = before

\* The final segment of the last call is a string other than '-'
FinalIsKey == Last(call.pointer).kind = "string" /\ Last(call.pointer).s # <<"-">>

\* C23: a set whose final segment is a string other than '-' inserts or
\* overwrites exactly that key when the parent is an object and fails
\* (expected an object) when the parent is an array; a final segment '-' or
\* integer with an object parent fails (expected array) and leaves the
\* object as it was, also when the object has a property named '-' that
\* get and has read through the same pointer.
SetKeyOrExpectArray ==
    SetOnStructure =>
        LET old == ValueAt(before, ParentLocation)
        IN  /\ FinalIsKey /\ old.kind = "object" =>
                   /\ Returned
                   /\ Resolves(root, ParentLocation)
                   /\ ValueAt(root, ParentLocation).kind = "object"
                   /\ ValueAt(root, ParentLocation).props =
                          [k \in (DOMAIN old.props) \cup {Last(call.pointer).s} |->
                              IF k = Last(call.pointer).s THEN call.value ELSE old.props[k]]
            /\ FinalIsKey /\ old.kind = "array" =>
                   FailedWith("Expected an object, got an array")
            /\ ~FinalIsKey /\ old.kind = "object" =>
                   /\ FailedWith("Expected array, got object")
                   /\ (Last(call.pointer).kind = "string" /\ <<"-">> \in DOMAIN old.props) =>
                          /\ get(call.pointer, before) = Return(old.props[<<"-">>])
                          /\ has(call.pointer, before) = Return(Boolean(TRUE))

\* A set whose final segment is '-' has failed on an object that has a
\* property named '-'
SetKeyOrExpectArrayWitness ==
    /\ SetOnStructure
    /\ Last(call.pointer) = Dash
    /\ Len(call.pointer) = 2
    /\ ValueAt(before, ParentLocation).kind = "object"
    /\ <<"-">> \in DOMAIN ValueAt(before, ParentLocation).props
    /\ outcome.status = "throw"

(***************************************************************************)
(* C24                                                                     *)
(***************************************************************************)
\* The origin token of the relative pointer of the last call ends with '#'
OriginEndsWithHash ==
    /\ call.relative[1].kind = "string"
    /\ call.relative[1].s[Len(call.relative[1].s)] = "#"

\* C24: set and unset on a key pointer fail with 'Cannot write to a key'
\* and leave the tree as it was, for every tree and base pointer, also when
\* the base pointer does not resolve or the ascent is out of bounds or
\* ends at the root.
KeyWriteFailsFirst ==
    (Ended("relativeSet") \/ Ended("relativeUnset")) /\ OriginEndsWithHash =>
        /\ Threw("JsonPointerError", "Cannot write to a key")
        /\ root = before

\* A set on a key pointer has failed from a base pointer that does not
\* resolve in the tree, or whose ascent is out of bounds
KeyWriteFailsFirstWitness ==
    /\ Ended("relativeSet")
    /\ OriginEndsWithHash
    /\ outcome.status = "throw"
    /\ \/ ~Resolves(before, call.pointer)
       \/ getParentIndex(call.relative) > Len(call.pointer)

(***************************************************************************)
(* C25                                                                     *)
(***************************************************************************)
\* The depth the ascent of the last call reaches in its base pointer
Reached == Len(call.pointer) - getParentIndex(call.relative)

\* The stack of entries of the last call can be built: the base pointer
\* resolves, the ascent stays within it and the offset, if any, names an
\* element of the array that holds the entry reached
StackIsBuilt ==
    /\ Resolves(before, call.pointer)
    /\ Reached >= 0
    /\ getParentIndexOffset(call.relative) # 0 =>
            /\ Reached >= 1
            /\ call.pointer[Reached].kind = "number"
            /\ IsArray(ValueAt(before, Prefix(call.pointer, Reached - 1)))
            /\ call.pointer[Reached].n + getParentIndexOffset(call.relative) >= 0
            /\ call.pointer[Reached].n + getParentIndexOffset(call.relative)
                   < ValueAt(before, Prefix(call.pointer, Reached - 1)).length

\* The location of the value of the top entry of that stack
TopLocation ==
    IF getParentIndexOffset(call.relative) = 0
    THEN Prefix(call.pointer, Reached)
    ELSE Prefix(call.pointer, Reached - 1)
             \o <<Num(call.pointer[Reached].n + getParentIndexOffset(call.relative))>>

\* The last call did what `pointer`.set does on the value at `location`
SetWithin(location, pointer) ==
    LET Same(expected) ==
            /\ root = ReplaceAt(before, location, expected.root)
            /\ outcome = IF expected.err = NoError THEN Return(Undefined)
                         ELSE Throw(expected.err)
    IN  Same(set(pointer, ValueAt(before, location), call.value))

\* C25: a set on a relative pointer that is not a key pointer, whose stack
\* of entries is built: with a remainder, it is the set of the remainder
\* pointer on the value of the top entry, also when the stack has one
\* entry; without a remainder it fails with 'Cannot set the root value'
\* when the stack has one entry and otherwise is the set, on the value of
\* the entry below the top, of the pointer made of the top entry's segment.
RelativeSetDelegates ==
    Ended("relativeSet") /\ ~OriginEndsWithHash /\ StackIsBuilt =>
        IF Len(call.relative) > 1
        THEN SetWithin(TopLocation, Tail(call.relative))
        ELSE IF Len(TopLocation) = 0
        THEN Threw("JsonPointerError", "Cannot set the root value") /\ root = before
        ELSE SetWithin(Prefix(TopLocation, Len(TopLocation) - 1), <<Last(TopLocation)>>)

\* The relative pointer 0/a has set the key a of an object root from the
\* root base pointer
RelativeSetDelegatesWitness ==
    /\ Ended("relativeSet")
    /\ call.pointer = <<>>
    /\ call.relative = <<Num(0), Str(<<"a">>)>>
    /\ before.kind = "object"
    /\ Returned
    /\ root # before
    /\ ValueAt(root, <<Str(<<"a">>)>>) = call.value

(***************************************************************************)
(* C26                                                                     *)
(***************************************************************************)
\* The origin token of the receiver of the last derivation ends with '#'
ReceiverIsKey ==
    /\ applied.this[1].kind = "string"
    /\ applied.this[1].s[Len(applied.this[1].s)] = "#"

\* C26: joinedWith of a relative pointer fails with 'Cannot join a key
\* pointer' when the receiver is a key pointer, also when the argument is
\* root; for another receiver it returns the receiver when the argument is
\* root and otherwise a relative pointer of the receiver's segments, the
\* origin token first, followed by the argument's.
RelativeJoinAppends ==
    applied.op = "relativeJoinedWith" =>
        IF ReceiverIsKey
        THEN /\ ~applied.result.ok
             /\ applied.result.err.kind = "JsonPointerError"
             /\ applied.result.err.msg = "Cannot join a key pointer"
        ELSE /\ applied.result.ok
             /\ applied.result.segments = applied.this \o applied.other

(***************************************************************************)
(* C27                                                                     *)
(***************************************************************************)
\* The relative pointer of the last call, which is not a key pointer,
\* references a location from its base pointer: without an offset the
\* ascent stays within the base pointer, with an offset the stack is built
ReferencesLocation ==
    /\ ~OriginEndsWithHash
    /\ IF getParentIndexOffset(call.relative) = 0 THEN Reached >= 0 ELSE StackIsBuilt

\* The location the relative pointer of the last call references
ReferencedLocation == TopLocation \o Tail(call.relative)

\* C27: an unset on a relative pointer that is not a key pointer and whose
\* target is not the root returns undefined and leaves the tree as it was
\* whenever the location it references does not exist in the tree, whether
\* it is the base pointer or the remainder that does not resolve; it does
\* not throw.
RelativeUnsetOfMissingIsNoOp ==
    ( /\ Ended("relativeUnset")
      /\ ReferencesLocation
      /\ Len(ReferencedLocation) > 0
      /\ ~Resolves(before, ReferencedLocation) ) =>
        outcome = Return(Undefined) /\ root = before

(***************************************************************************)
(* C28                                                                     *)
(***************************************************************************)
\* C28: whenever a set, on a pointer or on a relative pointer, fails with
\* any error, the tree is as it was before the call.
FailedSetLeavesTheTree ==
    (Ended("set") \/ Ended("relativeSet")) /\ outcome.status = "throw" => root = before

\* A set on a relative pointer has failed with an index out of bounds in
\* an array of the tree, or a set on a pointer has failed for a type
\* mismatch
FailedSetLeavesTheTreeWitness ==
    /\ outcome.status = "throw"
    /\ root = before
    /\ \/ Ended("relativeSet") /\ outcome.err.msg = "Index is out of bounds at"
       \/ Ended("set") /\ outcome.err.kind = "Error"

(***************************************************************************)
(* C29                                                                     *)
(***************************************************************************)
\* The locations a tree of the caller can hold a value at
FrameLocations == SequencesUpTo(Segments \cup {Str(<<"b">>)}, MaxDepth + 1)

\* p is a prefix of q
IsPrefix(p, q) == Len(p) <= Len(q) /\ SubSeq(q, 1, Len(p)) = p

\* The location a set that returned has written: that of its pointer, or
\* the index after the last element of the parent array when the final
\* segment is '-'
WrittenLocation ==
    IF Last(call.pointer) = Dash
    THEN ParentLocation \o <<Num(ValueAt(before, ParentLocation).length)>>
    ELSE call.pointer

\* C29: after a set with the pointer P and the value v has returned, get
\* with P returns v when the final segment of P is not '-', and v is at the
\* index (old length) of the parent array when it is '-'; every location
\* that resolved before the call and is neither a prefix of the written
\* location nor has it for a prefix still resolves to the same value, so
\* no array element has changed its index.
SetWritesOneLocation ==
    Ended("set") /\ Returned =>
        /\ Last(call.pointer) # Dash => get(call.pointer, root) = Return(call.value)
        /\ Last(call.pointer) = Dash =>
               /\ Resolves(root, WrittenLocation)
               /\ ValueAt(root, WrittenLocation) = call.value
               /\ ValueAt(root, ParentLocation).length =
                      ValueAt(before, ParentLocation).length + 1
        /\ \A Q \in FrameLocations :
               ( /\ Resolves(before, Q)
                 /\ ~IsPrefix(Q, WrittenLocation)
                 /\ ~IsPrefix(WrittenLocation, Q) ) =>
                   Resolves(root, Q) /\ ValueAt(root, Q) = ValueAt(before, Q)

\* A set has replaced the first element of an array of two elements that
\* is not the root, and the second element is where it was
SetWritesOneLocationWitness ==
    /\ Ended("set")
    /\ Returned
    /\ Len(call.pointer) = 2
    /\ Last(call.pointer) = Num(0)
    /\ IsArray(ValueAt(before, ParentLocation))
    /\ ValueAt(before, ParentLocation).length = 2
    /\ ValueAt(before, call.pointer) # call.value
    /\ ValueAt(root, ParentLocation \o <<Num(1)>>) = ValueAt(before, ParentLocation \o <<Num(1)>>)

(***************************************************************************)
(* C30                                                                     *)
(***************************************************************************)
\* The last call was a get, set or unset on a relative pointer that is not
\* a key pointer and has no offset, from a base pointer that resolves
ZeroOffsetCall ==
    /\ pc = "returned"
    /\ call.op \in {"relativeGet", "relativeSet", "relativeUnset"}
    /\ ~OriginEndsWithHash
    /\ getParentIndexOffset(call.relative) = 0
    /\ Resolves(before, call.pointer)

\* The last call did what the same operation of the absolute pointer
\* `resolved` does on the tree; when there is no such pointer it failed
SameAsResolved(resolved) ==
    IF ~resolved.ok
    THEN outcome.status = "throw" /\ root = before
    ELSE IF call.op = "relativeGet"
    THEN /\ outcome.status = get(resolved.segments, before).status
         /\ outcome.status = "return" => outcome = get(resolved.segments, before)
         /\ root = before
    ELSE IF call.op = "relativeSet"
    THEN /\ root = set(resolved.segments, before, call.value).root
         /\ outcome.status = "return" <=>
                set(resolved.segments, before, call.value).err = NoError
    ELSE /\ root = unset(resolved.segments, before).root
         /\ outcome.status = unset(resolved.segments, before).out.status
         /\ outcome.status = "return" => outcome = unset(resolved.segments, before).out

\* C30: for a relative pointer R that is not a key pointer and has no
\* offset and a base pointer B that resolves in the tree, R.get(root, B)
\* returns exactly when R.resolve(B) returns a pointer whose get returns,
\* and returns the same value; R.set(root, v, B) leaves the tree that the
\* set of R.resolve(B) leaves; R.unset(root, B) removes and returns what
\* the unset of R.resolve(B) removes and returns.
RelativeAgreesWithResolved ==
    ZeroOffsetCall => SameAsResolved(resolve(call.relative, call.pointer))

\* An unset on the relative pointer 1/a, from a base pointer of one
\* segment, has removed and returned the value of the key a of the root
RelativeAgreesWithResolvedWitness ==
    /\ ZeroOffsetCall
    /\ call.op = "relativeUnset"
    /\ call.relative = <<Num(1), Str(<<"a">>)>>
    /\ Len(call.pointer) = 1
    /\ outcome.status = "return"
    /\ outcome.value = ValueAt(before, <<Str(<<"a">>)>>)
    /\ root # before

====
